---- MODULE Spec2Model ----
(***************************************************************************)
(* A model of the streaming coordinator of audioinsight/processors.py:     *)
(* the decoder supervisor (FFmpegProcessor), the coordinator's push        *)
(* interface (AudioProcessor.process_audio), the watchdog, the stage       *)
(* tasks, the shared state and the results emitter.                        *)
(*                                                                         *)
(* Scheduling follows asyncio: one task runs at a time and control changes *)
(* hands only at an await that really suspends (run_in_executor, sleep,    *)
(* queue get, the generator's yield).  Each action below is one such       *)
(* uninterrupted stretch of a coroutine.  The state lock is never held     *)
(* across a suspension, so acquiring it never suspends.  The transcription *)
(* stage calls the engine synchronously and its queue get does not suspend *)
(* while items are queued: once it runs it keeps the event loop until its  *)
(* queue is empty (transcription_pc = "busy" in between).                  *)
(***************************************************************************)
EXTENDS Integers, Sequences, FiniteSets, TLC

\* ------------------------------------------------------------- bounds
MaxRestarts == 2
MaxPushes == 2
MaxTime == 1
MaxNow == 1
MaxTokens == 2

\* ---------------------------------------------------------- constants
NoProc == 0
Procs == 1..(MaxRestarts + 1)
Callers == {"watchdog", "reader", "push"}
EmptyMessage == "empty"
AudioMessage == "audio"
Messages == {EmptyMessage, AudioMessage}
RestartMaxRetries == 3

\* FFmpegProcessor.__init__: the decoder's output format, and min_chunk_size
\* (0.5 s by default) in tenths of a second.
SampleRate == 16000
BytesPerSample == 2
MinChunkTenths == 5
\* samples_per_sec and bytes_per_sec: for all their names, the samples and
\* bytes of min_chunk_size seconds.
SamplesPerSec == (SampleRate * MinChunkTenths) \div 10
BytesPerSec == SamplesPerSec * BytesPerSample
MaxBytesPerSec == 160000

VARIABLES
    is_stopping,        \* AudioProcessor.is_stopping
    ffmpeg_process,     \* FFmpegProcessor.ffmpeg_process: NoProc (None) or a process
    proc_stdin_closed,  \* per spawned process: stdin.closed
    proc_stdout_closed, \* per spawned process: stdout.closed
    proc_alive,         \* per spawned process: poll() is None
    proc_out,           \* per spawned process: decoded chunks not yet read
    n_spawned,          \* processes started so far
    rpc,                \* per caller: where its restart_ffmpeg() call stands
    r_attempt,          \* per caller: restart_ffmpeg's attempt counter
    r_wait,             \* per caller: the seconds of the back-off sleep it is in
    r_proc,             \* per caller: the process whose wait() it awaits
    restarts_begun,     \* restart_ffmpeg() calls so far
    reader_pc,          \* read_audio_data: start | loop | reading | restarting | done
    reader_proc,        \* the process whose stdout.read the reader awaits
    pcm_buffer_length,  \* FFmpegProcessor.pcm_buffer_length, in bytes
    diarization_buffer_size, \* FFmpegProcessor._diarization_buffer_size, in samples
    push_pc,            \* process_audio: idle | writing | flushing | restarting
    push_proc,          \* the process whose stdin.write the push awaits
    n_pushes,           \* process_audio calls so far
    last_push,          \* what the last process_audio call did
    stop_pushed,        \* a process_audio(b"") call has been made
    reset_pc,           \* force_reset(): idle | waiting | reset; cleanup(): cleaning | cleaned
    cleanups,           \* FFmpegProcessor.cleanup() calls that have returned
    transcription_queue,\* asyncio.Queue of the transcription stage
    transcription_pc,   \* TranscriptionProcessor.process: none | run | busy | done
    transcription_unfinished, \* the queue's puts not yet answered by task_done()
    args_transcription, \* args.transcription
    args_diarization,   \* args.diarization
    llm_enabled,        \* AudioProcessor.llm is not None
    asr_sep,            \* the engine's separator, TranscriptionProcessor.sep
    tokens,             \* AudioProcessor.tokens
    buffer_transcription,
    buffer_diarization,
    end_buffer,
    end_attributed_speaker,
    full_transcription, \* AudioProcessor.full_transcription
    sep,                \* AudioProcessor.sep
    tp_full_transcription, \* TranscriptionProcessor.full_transcription
    summaries,          \* AudioProcessor.summaries
    has_summaries,      \* AudioProcessor._has_summaries
    n_callbacks,        \* _handle_inference_callback calls so far
    parsed_transcripts, \* AudioProcessor.parsed_transcripts
    last_parsed_transcript,
    parser_enabled,     \* _parser_enabled and transcript_parser is not None
    accumulated_text_for_parser, \* TRUE when that text is non-blank
    parse_tasks,        \* _update_coordinator_parser_async tasks created, not yet run
    parses_in_flight,   \* parse_and_store_transcript calls awaiting the parser
    n_parsed,           \* transcripts the parser has returned so far
    now,                \* the wall clock, time(), in whole seconds
    beg_loop,           \* AudioProcessor.beg_loop
    diarization_queue,  \* asyncio.Queue of the diarization stage
    diarization_pc,     \* DiarizationProcessor.process: none | run | diarizing | done
    diarization_unfinished, \* the queue's puts not yet answered by task_done()
    llm_accumulated,    \* llm.accumulated_text.strip() is non-empty
    emit_pc,            \* results_formatter: loop | yielded | forcing | polling | done
    response_content,   \* results_formatter's local of that name, while it is suspended
    last_response_content,
    waited,             \* results_formatter's waited_time, in polls of 0.5 s
    initial_summary_count,
    last_emit,          \* the snapshot yielded last (NoEmit before the first)
    last_emit_reads,    \* for each part of that snapshot: the state read it came from
    emits_after_stop,   \* snapshots yielded since is_stopping was set
    commits_after_stop, \* stage updates of the shared state since is_stopping was set
    chunk_list,         \* stream_chunks_realtime: chunks, the list it was given
    chunk_interval,     \* stream_chunks_realtime: chunk_interval, in tenths of a second
    progress_callback,  \* stream_chunks_realtime: a progress_callback was given
    stream_i,           \* stream_chunks_realtime: i, the index of its loop
    stream_pc,          \* stream_chunks_realtime: none | start | loop | processing |
                        \*   stopping | returned | raised
    passed              \* stream_chunks_realtime: what it has given process_func, in order

decoderVars == <<ffmpeg_process, proc_stdin_closed, proc_stdout_closed, proc_alive,
                 proc_out, n_spawned>>
restartVars == <<rpc, r_attempt, r_wait, r_proc, restarts_begun>>
bufferVars == <<pcm_buffer_length, diarization_buffer_size>>
readerVars == <<reader_pc, reader_proc, bufferVars>>
\* The caller's side: its process_audio() and force_reset() calls.
pushVars == <<push_pc, push_proc, n_pushes, last_push, stop_pushed, reset_pc,
              cleanups>>

stageVars == <<transcription_queue, transcription_pc, transcription_unfinished>>
queueVars == <<transcription_queue, diarization_queue, transcription_unfinished,
               diarization_unfinished>>
cfgVars == <<args_transcription, args_diarization, llm_enabled, asr_sep>>
tokenVars == <<tokens, buffer_transcription, buffer_diarization, end_buffer,
               end_attributed_speaker, full_transcription, tp_full_transcription, sep>>
summaryVars == <<summaries, has_summaries, n_callbacks>>
parseVars == <<parser_enabled, accumulated_text_for_parser, parse_tasks,
               parsed_transcripts, last_parsed_transcript, parses_in_flight, n_parsed>>
clockVars == <<now, beg_loop>>
diarVars == <<diarization_queue, diarization_pc, diarization_unfinished>>
emitVars == <<emit_pc, response_content, last_response_content, waited,
              initial_summary_count, last_emit, last_emit_reads, emits_after_stop>>

\* The file streamer of the server, stream_chunks_realtime().
streamVars == <<chunk_list, chunk_interval, progress_callback, stream_i, stream_pc,
                passed>>

vars == <<is_stopping, decoderVars, restartVars, readerVars, pushVars, stageVars,
          cfgVars, tokenVars, summaryVars, parseVars, clockVars, diarVars,
          llm_accumulated, emitVars, commits_after_stop, streamVars>>

\* Everything the decoder supervisor and the push interface never touch.
coordVars == <<transcription_pc, cfgVars, tokenVars, summaryVars, parseVars, clockVars,
               diarization_pc, llm_accumulated, emitVars, commits_after_stop>>

\* The event loop is free for another task to run.
LoopFree == transcription_pc # "busy"

\* ------------------------------------------------ decoder supervisor

\* Closing a pipe end of process p (a None handle has none to close).
CloseStdin(closed, p) == IF p = NoProc THEN closed ELSE [closed EXCEPT ![p] = TRUE]

\* Output still in a pipe is lost when the pipe is closed.
DropOutput(out, p) == IF p = NoProc THEN out ELSE [out EXCEPT ![p] = 0]

\* The decoder input as process_audio sees it: a handle whose stdin is open.
InputOpen == ffmpeg_process # NoProc /\ ~proc_stdin_closed[ffmpeg_process]

\* What the queues hold: frames, each an array of so many samples, and the
\* sentinel that ends a stage.
SENTINEL == [kind |-> "SENTINEL", samples |-> 0]
Frame(samples) == [kind |-> "frame", samples |-> samples]
DiarizationQueueLimit == 5

\* A queue gets the item if its stage is enabled in args and the queue exists
\* (create_tasks() makes the queue together with the stage task).
PutIf(enabled, queue, item) == IF enabled THEN Append(queue, item) ELSE queue

ToTranscription == args_transcription /\ transcription_pc # "none"
ToDiarization == args_diarization /\ diarization_pc # "none"

\* Queue.put() counts each item it adds as an unfinished task.
PutsCounted ==
    /\ transcription_unfinished' =
          transcription_unfinished + Len(transcription_queue') - Len(transcription_queue)
    /\ diarization_unfinished' =
          diarization_unfinished + Len(diarization_queue') - Len(diarization_queue)

\* A reader that leaves its loop without a word to the stages.
ReaderFinishSilent(tq, dq) ==
    /\ reader_pc' = "done"
    /\ reader_proc' = NoProc
    /\ transcription_queue' = tq
    /\ diarization_queue' = dq
    /\ PutsCounted

\* read_audio_data() leaves its loop: the sentinel goes to the stage queues,
\* which hold tq and dq.
ReaderFinish(tq, dq) ==
    /\ reader_pc' = "done"
    /\ reader_proc' = NoProc
    /\ transcription_queue' = PutIf(ToTranscription, tq, SENTINEL)
    /\ diarization_queue' = PutIf(ToDiarization, dq, SENTINEL)
    /\ PutsCounted

\* read_audio_data(), from the head of its loop to the awaited read, when the
\* decoder is not idle: stdout.read of the process the handle names is handed
\* to the executor.  With no handle (AttributeError) or a closed stdout
\* (ValueError) the exception ends the loop.
ReaderBeginRead(process, stdout_closed, tq, dq) ==
    IF process = NoProc \/ stdout_closed[process]
    THEN ReaderFinish(tq, dq)
    ELSE /\ reader_pc' = "reading"
         /\ reader_proc' = process
         /\ transcription_queue' = tq
         /\ diarization_queue' = dq
         /\ PutsCounted

\* What the caller of restart_ffmpeg() does when the call returns: the watchdog
\* goes back to sleep, the reader goes on to its next read from the process the
\* handle names now, the push has used up its one retry (retry_count =
\* max_retries = 1) and returns.
AfterRestart(c) ==
    /\ push_pc' = IF c = "push" THEN "idle" ELSE push_pc
    /\ IF c = "reader"
       THEN ReaderBeginRead(ffmpeg_process', proc_stdout_closed',
                            transcription_queue, diarization_queue)
       ELSE UNCHANGED <<reader_pc, reader_proc, queueVars>>

\* restart_ffmpeg(), from its entry to its first suspension: the streams of the
\* current process are closed; a running process is terminated and awaited, a
\* missing or exited one leads straight to the 0.5 s sleep.
RestartBegin(c) ==
    /\ restarts_begun' = restarts_begun + 1
    /\ r_attempt' = [r_attempt EXCEPT ![c] = 0]
    /\ r_wait' = [r_wait EXCEPT ![c] = 0]
    /\ proc_stdin_closed' = CloseStdin(proc_stdin_closed, ffmpeg_process)
    /\ proc_stdout_closed' = CloseStdin(proc_stdout_closed, ffmpeg_process)
    /\ IF ffmpeg_process # NoProc /\ proc_alive[ffmpeg_process]
       THEN /\ rpc' = [rpc EXCEPT ![c] = "terminating"]
            /\ r_proc' = [r_proc EXCEPT ![c] = ffmpeg_process]
            /\ ffmpeg_process' = ffmpeg_process
       ELSE /\ rpc' = [rpc EXCEPT ![c] = "sleeping"]
            /\ r_proc' = r_proc
            /\ ffmpeg_process' = NoProc
    /\ proc_out' = DropOutput(proc_out, ffmpeg_process)
    /\ UNCHANGED <<proc_alive, n_spawned>>

\* restart_ffmpeg(), the awaited wait() is over: the terminated process has
\* exited, or the 3 s ran out and kill() went to whatever the handle names now
\* (an AttributeError on None is caught), or the process could not be killed.
\* Then the handle is cleared and the coroutine sleeps 0.5 s.
RestartTerminated(c) ==
    /\ LoopFree
    /\ rpc[c] = "terminating"
    /\ \E outcome \in {"exited", "killed", "unkillable"} :
         proc_alive' =
            CASE outcome = "exited" -> [proc_alive EXCEPT ![r_proc[c]] = FALSE]
              [] outcome = "killed" ->
                    IF ffmpeg_process = NoProc THEN proc_alive
                    ELSE [proc_alive EXCEPT ![ffmpeg_process] = FALSE]
              [] OTHER -> proc_alive
    /\ ffmpeg_process' = NoProc
    /\ rpc' = [rpc EXCEPT ![c] = "sleeping"]
    /\ r_proc' = [r_proc EXCEPT ![c] = NoProc]
    /\ UNCHANGED <<proc_stdin_closed, proc_stdout_closed, proc_out, n_spawned,
                   r_attempt, r_wait, restarts_begun, readerVars, pushVars,
                   is_stopping, queueVars, coordVars>>
    /\ UNCHANGED streamVars

\* start_ffmpeg_decoder(): the stdout of a process the handle still names is
\* closed; then a new process is spawned (ok) or the spawn raises.
StartDecoder(ok) ==
    /\ proc_stdout_closed' = CloseStdin(proc_stdout_closed, ffmpeg_process)
    /\ proc_out' = DropOutput(proc_out, ffmpeg_process)
    /\ IF ok
       THEN /\ n_spawned' = n_spawned + 1
            /\ ffmpeg_process' = n_spawned + 1
       ELSE UNCHANGED <<n_spawned, ffmpeg_process>>

\* A back-off of one second whatever the attempt.
BackoffOneSecond(attempt) == 1

\* await asyncio.sleep(1.0 * (attempt + 1)): the back-off after the failed
\* attempt of that number (counted from 0), in seconds.
BackoffSeconds(attempt) == attempt + 1

\* restart_ffmpeg(), one pass of its retry loop, after the 0.5 s sleep or a
\* back-off sleep: a successful start empties the PCM buffer and returns; a
\* failed one sleeps and tries again, and the third failure returns with the
\* handle left as it is.
RestartAttempt(c) ==
    /\ LoopFree
    /\ rpc[c] \in {"sleeping", "backoff"}
    /\ \E ok \in BOOLEAN :
         /\ StartDecoder(ok)
         /\ pcm_buffer_length' = IF ok THEN 0 ELSE pcm_buffer_length
         /\ IF ok \/ r_attempt[c] >= RestartMaxRetries - 1
            THEN /\ rpc' = [rpc EXCEPT ![c] = "idle"]
                 /\ r_attempt' = [r_attempt EXCEPT ![c] = 0]
                 /\ r_wait' = [r_wait EXCEPT ![c] = 0]
                 /\ AfterRestart(c)
            ELSE /\ rpc' = [rpc EXCEPT ![c] = "backoff"]
                 /\ r_attempt' = [r_attempt EXCEPT ![c] = @ + 1]
                 /\ r_wait' = [r_wait EXCEPT ![c] = BackoffSeconds(r_attempt[c])]
                 /\ UNCHANGED <<reader_pc, reader_proc, push_pc, queueVars>>
    /\ UNCHANGED <<proc_stdin_closed, proc_alive, r_proc, restarts_begun,
                   diarization_buffer_size, push_proc, n_pushes, last_push,
                   stop_pushed, reset_pc, cleanups, is_stopping, coordVars>>
    /\ UNCHANGED streamVars

\* The child process the handle names ends by itself: it has read the end of
\* its input, or it has failed.
DecoderExit(p) ==
    /\ p = ffmpeg_process
    /\ proc_alive[p]
    /\ proc_alive' = [proc_alive EXCEPT ![p] = FALSE]
    /\ UNCHANGED <<ffmpeg_process, proc_stdin_closed, proc_stdout_closed, proc_out,
                   n_spawned, restartVars, readerVars, pushVars, is_stopping,
                   queueVars, coordVars>>
    /\ UNCHANGED streamVars

\* ------------------------------------------------------------ watchdog

\* watchdog(), one round in which the decoder has been idle for more than 30 s:
\* unless the coordinator is stopping, restart_ffmpeg() is called.  (A round
\* that finds nothing to do changes no state.)
WatchdogRestart ==
    /\ LoopFree
    /\ rpc["watchdog"] = "idle"
    /\ restarts_begun < MaxRestarts
    /\ ~is_stopping
    /\ RestartBegin("watchdog")
    /\ UNCHANGED <<readerVars, pushVars, is_stopping, queueVars, coordVars>>
    /\ UNCHANGED streamVars

\* -------------------------------------------------------------- reader

\* read_audio_data(), the head of the loop while the decoder was idle for more
\* than 60 s: restart_ffmpeg() is called, whether or not the coordinator stops.
\* Only the first pass can find the decoder idle: every later pass follows a
\* chunk or a restart, and both set last_ffmpeg_activity to the current time.
\* The reader waits in "restarting" while its restart_ffmpeg() call runs.
ReaderIdleRestart ==
    /\ LoopFree
    /\ reader_pc = "start"
    /\ restarts_begun < MaxRestarts
    /\ RestartBegin("reader")
    /\ reader_pc' = "restarting"
    /\ UNCHANGED <<reader_proc, bufferVars, pushVars, is_stopping, queueVars, coordVars>>
    /\ UNCHANGED streamVars

\* read_audio_data(), the head of the loop otherwise, when the task runs for
\* the first time or after the 0.1 s sleep it takes with both stages disabled.
ReaderStartRead ==
    /\ LoopFree
    /\ reader_pc \in {"start", "loop"}
    /\ ReaderBeginRead(ffmpeg_process, proc_stdout_closed,
                       transcription_queue, diarization_queue)
    /\ UNCHANGED <<decoderVars, restartVars, bufferVars, pushVars, is_stopping,
                   coordVars>>
    /\ UNCHANGED streamVars

\* buffer_size = max(int(32000 * elapsed_time), 4096): the bytes a read asks for
\* when the pass before took so many tenths of a second.  A read returns that
\* many bytes, or fewer at the end of the output.
MinReadSize == 4096
BufferSize(elapsed_tenths) ==
    IF 3200 * elapsed_tenths > MinReadSize THEN 3200 * elapsed_tenths ELSE MinReadSize

\* The reads of a decoder that keeps up (the minimum size) and of one that
\* delivers two seconds at a time.
AnyChunk == {BufferSize(0), BufferSize(20)}

\* min_transcription_buffer = max(self.bytes_per_sec // 2, 8192)
MinTranscriptionBuffer ==
    IF BytesPerSec \div 2 > 8192 THEN BytesPerSec \div 2 ELSE 8192

\* diarization_chunk_threshold = self.bytes_per_sec * 2
DiarizationChunkThreshold == BytesPerSec * 2

\* A queue that always has room.
QueueHasRoomAlways(queue) == TRUE

\* if diarization_queue.qsize() < 5
QueueHasRoom(queue) == Len(queue) < DiarizationQueueLimit

\* get_pcm_data(max_bytes): the bytes taken from a buffer of `length` bytes
GetPcmData(length, max_bytes) == IF length < max_bytes THEN length ELSE max_bytes

\* convert_pcm_to_float(): the samples of so many bytes
ConvertPcmToFloat(bytes) == bytes \div BytesPerSample

\* read_audio_data(), the read returns: a chunk of so many bytes (one of
\* `chunks`), the end of the output (the process has read the end of its input
\* or has exited), or an exception because stdout was closed under it.  The
\* chunk is appended to the PCM buffer; when the buffer holds
\* min_transcription_buffer bytes, up to max_bytes_per_sec of them become a
\* frame on the transcription queue and are gathered for diarization, and when
\* the samples gathered reach the threshold they go to the diarization queue if
\* fewer than five items wait there, and are dropped otherwise.  Then the next
\* read begins, after a sleep of 0.1 s when both stages are disabled.
ReaderRead(chunks) ==
    /\ LoopFree
    /\ reader_pc = "reading"
    /\ LET p == reader_proc IN
       \/ /\ ~proc_stdout_closed[p]
          /\ proc_out[p] > 0
          /\ proc_out' = [proc_out EXCEPT ![p] = @ - 1]
          /\ \E chunk \in chunks :
                LET length == pcm_buffer_length + chunk
                    process == length >= MinTranscriptionBuffer
                    bytes_to_process == GetPcmData(length, MaxBytesPerSec)
                    samples == ConvertPcmToFloat(bytes_to_process)
                    gather == process /\ ToDiarization
                    gathered == diarization_buffer_size + samples
                    full == gathered >= DiarizationChunkThreshold
                    tq == PutIf(process /\ ToTranscription, transcription_queue,
                                Frame(samples))
                    dq == PutIf(gather /\ full /\ QueueHasRoom(diarization_queue),
                                diarization_queue, Frame(gathered))
                IN /\ pcm_buffer_length' = IF process THEN length - bytes_to_process
                                           ELSE length
                   /\ diarization_buffer_size' =
                         IF gather THEN (IF full THEN 0 ELSE gathered)
                         ELSE diarization_buffer_size
                   /\ IF process /\ ~args_transcription /\ ~args_diarization
                      THEN /\ reader_pc' = "loop"
                           /\ reader_proc' = NoProc
                           /\ transcription_queue' = tq
                           /\ diarization_queue' = dq
                           /\ PutsCounted
                      ELSE ReaderBeginRead(ffmpeg_process, proc_stdout_closed, tq, dq)
       \/ /\ ~proc_stdout_closed[p]
          /\ proc_out[p] = 0
          /\ proc_stdin_closed[p] \/ ~proc_alive[p]
          /\ ReaderFinish(transcription_queue, diarization_queue)
          /\ UNCHANGED <<proc_out, bufferVars>>
       \/ /\ proc_stdout_closed[p]
          /\ ReaderFinish(transcription_queue, diarization_queue)
          /\ UNCHANGED <<proc_out, bufferVars>>
    /\ UNCHANGED <<ffmpeg_process, proc_stdin_closed, proc_stdout_closed, proc_alive,
                   n_spawned, restartVars, pushVars, is_stopping, coordVars>>
    /\ UNCHANGED streamVars

\* ---------------------------------------------------- push interface

\* The head test without its is_stopping part.
IgnorePushClosedOnly == ffmpeg_process # NoProc /\ proc_stdin_closed[ffmpeg_process]

\* The test at the head of process_audio(): the coordinator is stopping, or
\* there is a decoder handle whose stdin is closed.
IgnorePush == is_stopping \/ (ffmpeg_process # NoProc /\ proc_stdin_closed[ffmpeg_process])

\* What a process_audio() call was given and what it did.
Pushed(message, did) == [message |-> message, did |-> did]

\* process_audio(message), from its entry to its first suspension or return.
\* The caller makes one call at a time, and none without a session.
ProcessAudio(message) ==
    /\ LoopFree
    /\ push_pc = "idle"
    /\ reset_pc = "idle"
    /\ n_pushes' = n_pushes + 1
    /\ stop_pushed' = (stop_pushed \/ message = EmptyMessage)
    /\ IF IgnorePush
       THEN \* ignored; a redundant stop signal still closes an open stdin
            /\ last_push' = Pushed(message, IF is_stopping THEN "ignored_stopping"
                                             ELSE "ignored_closed")
            /\ proc_stdin_closed' =
                  IF message = EmptyMessage /\ InputOpen
                  THEN CloseStdin(proc_stdin_closed, ffmpeg_process)
                  ELSE proc_stdin_closed
            /\ UNCHANGED <<is_stopping, ffmpeg_process, proc_stdout_closed, proc_alive,
                           proc_out, n_spawned, restartVars, push_pc, push_proc,
                           reader_pc>>
       ELSE IF message = EmptyMessage
       THEN \* the primary stop signal
            /\ last_push' = Pushed(message, "stop")
            /\ is_stopping' = TRUE
            /\ proc_stdin_closed' =
                  IF InputOpen THEN CloseStdin(proc_stdin_closed, ffmpeg_process)
                  ELSE proc_stdin_closed
            /\ UNCHANGED <<ffmpeg_process, proc_stdout_closed, proc_alive, proc_out,
                           n_spawned, restartVars, push_pc, push_proc, reader_pc>>
       ELSE \* process_audio_chunk(message)
            IF ffmpeg_process = NoProc \/ ~proc_alive[ffmpeg_process]
               \/ proc_stdin_closed[ffmpeg_process]
            THEN /\ restarts_begun < MaxRestarts
                 /\ last_push' = Pushed(message, "restart")
                 /\ RestartBegin("push")
                 /\ push_pc' = "restarting"
                 /\ UNCHANGED <<is_stopping, push_proc, reader_pc>>
            ELSE /\ last_push' = Pushed(message, "write")
                 /\ push_pc' = "writing"
                 /\ push_proc' = ffmpeg_process
                 /\ UNCHANGED <<is_stopping, decoderVars, restartVars, reader_pc>>
    /\ UNCHANGED <<reader_proc, bufferVars, reset_pc, cleanups, queueVars,
                   coordVars>>
    /\ UNCHANGED streamVars

\* process_audio_chunk() ends, and process_audio() with it: what the call did
\* is recorded.
PushEnds(did) ==
    /\ push_pc' = "idle"
    /\ push_proc' = NoProc
    /\ last_push' = [last_push EXCEPT !.did = did]

\* A handler that answers the timeout with a restart.
OnTimeoutRestart(did) ==
    /\ RestartBegin("push")
    /\ push_pc' = "restarting"
    /\ push_proc' = NoProc
    /\ last_push' = [last_push EXCEPT !.did = did]

\* except asyncio.TimeoutError: the timeout is logged and the call returns.
OnTimeout(did) ==
    /\ PushEnds(did)
    /\ UNCHANGED <<decoderVars, restartVars>>

\* A handler that answers the error with a restart, as one with retries left
\* would.
OnErrorRestart(closed) ==
    /\ RestartBegin("push")
    /\ push_pc' = "restarting"
    /\ push_proc' = NoProc
    /\ last_push' = [last_push EXCEPT !.did = IF closed THEN "raised" ELSE "gave_up"]

\* The write or flush raised.  BrokenPipeError and OSError are caught: with
\* max_retries = 1 the retries are used up, and the call returns without a
\* restart.  The ValueError of a closed file is not among the exceptions
\* caught: it leaves process_audio_chunk() and process_audio().
OnError(closed) ==
    /\ PushEnds(IF closed THEN "raised" ELSE "gave_up")
    /\ UNCHANGED <<decoderVars, restartVars>>

\* process_audio_chunk(), the awaited stdin.write is over: the bytes reached the
\* decoder and the flush begins; or the 8 s ran out; or the write raised,
\* ValueError when a restart has closed stdin in the meantime, BrokenPipeError
\* when the process has exited.
PushWriteDone ==
    /\ LoopFree
    /\ push_pc = "writing"
    /\ \/ /\ ~proc_stdin_closed[push_proc] /\ proc_alive[push_proc]
          /\ proc_out' = IF proc_stdout_closed[push_proc] THEN proc_out
                         ELSE [proc_out EXCEPT ![push_proc] = @ + 1]
          /\ push_pc' = "flushing"
          /\ UNCHANGED <<ffmpeg_process, proc_stdin_closed, proc_stdout_closed,
                         proc_alive, n_spawned, restartVars, push_proc, last_push>>
       \/ OnTimeout("write_timeout")
       \/ /\ proc_stdin_closed[push_proc] \/ ~proc_alive[push_proc]
          /\ OnError(proc_stdin_closed[push_proc])
    /\ UNCHANGED <<readerVars, n_pushes, stop_pushed, reset_pc, cleanups, is_stopping,
                   queueVars, coordVars>>
    /\ UNCHANGED streamVars

\* The handle names a process whose stdin is open and which runs.
HandleWritable ==
    /\ ffmpeg_process # NoProc
    /\ ~proc_stdin_closed[ffmpeg_process]
    /\ proc_alive[ffmpeg_process]

\* The handle names a process whose stdin a restart has closed.
HandleClosed == ffmpeg_process # NoProc /\ proc_stdin_closed[ffmpeg_process]

\* process_audio_chunk(), the awaited stdin.flush is over.  The flush goes to
\* the stdin of whatever the handle names when the write has returned: done,
\* and the call returns; or the 4 s ran out; or the flush raised, ValueError
\* on a stdin closed in the meantime, AttributeError on a cleared handle.
PushFlushDone ==
    /\ LoopFree
    /\ push_pc = "flushing"
    /\ \/ /\ HandleWritable
          /\ PushEnds("written")
          /\ UNCHANGED <<decoderVars, restartVars>>
       \/ OnTimeout("flush_timeout")
       \/ /\ ~HandleWritable
          /\ OnError(HandleClosed)
    /\ UNCHANGED <<readerVars, n_pushes, stop_pushed, reset_pc, cleanups, is_stopping,
                   queueVars, coordVars>>
    /\ UNCHANGED streamVars

\* ---------------------------------------------------------------- text

\* A string is a sequence of one-character strings.  The default separator:
Sep == <<" ">>

\* sep.join(texts)
RECURSIVE Join(_, _)
Join(texts, separator) ==
    IF texts = <<>> THEN <<>>
    ELSE IF Len(texts) = 1 THEN texts[1]
    ELSE texts[1] \o separator \o Join(Tail(texts), separator)

\* Python's `sub in s` on strings.
Contains(sub, s) ==
    \E i \in 0..(Len(s) - Len(sub)) : SubSeq(s, i + 1, i + Len(sub)) = sub

\* text.strip() is non-empty
HasNonBlank(text) == \E i \in 1..Len(text) : text[i] # " "

\* s2hk(): Simplified to Traditional conversion, character by character; "s"
\* stands for a Simplified character and "t" for its Traditional form.
S2HK(text) == [i \in 1..Len(text) |-> IF text[i] = "s" THEN "t" ELSE text[i]]

\* str(speaker) for the speaker ids in use
SpeakerStr(n) == IF n < 0 THEN <<"-">> \o <<<<"0", "1", "2", "3">>[-n + 1]>>
                 ELSE <<<<"0", "1", "2", "3">>[n + 1]>>

\* format_time(): H:MM:SS of the whole seconds
FormatTime(seconds) == <<seconds \div 3600, (seconds % 3600) \div 60, seconds % 60>>

\* -------------------------------------------------------- shared state

Token(start, end, text, speaker, is_dummy) ==
    [start |-> start, end |-> end, text |-> text, speaker |-> speaker,
     is_dummy |-> is_dummy]

\* tokens.extend(new_tokens)
ExtendTokens(toks, new_tokens) == toks \o new_tokens

\* update_transcription()
UpdateTranscription(new_tokens, buffer, new_end_buffer, full, new_sep) ==
    /\ tokens' = ExtendTokens(tokens, new_tokens)
    /\ buffer_transcription' = buffer
    /\ end_buffer' = new_end_buffer
    /\ full_transcription' = full
    /\ sep' = new_sep

\* An update that takes a call with a buffer for a new beginning of the
\* watermark.
UpdateDiarizationResetting(new_end_attributed_speaker, new_buffer_diarization) ==
    /\ end_attributed_speaker' = IF new_buffer_diarization # <<>> THEN 0
                                 ELSE new_end_attributed_speaker
    /\ buffer_diarization' = IF new_buffer_diarization # <<>>
                             THEN new_buffer_diarization ELSE buffer_diarization

\* update_diarization()
UpdateDiarization(new_end_attributed_speaker, new_buffer_diarization) ==
    /\ end_attributed_speaker' = new_end_attributed_speaker
    /\ buffer_diarization' = IF new_buffer_diarization # <<>>
                             THEN new_buffer_diarization ELSE buffer_diarization

OneSecond == 1

\* add_dummy_token(): the placeholder token, one second wide, at the current
\* offset of the wall clock from beg_loop
DummyToken == Token(now - beg_loop, now - beg_loop + OneSecond, <<".">>, 0, TRUE)

\* The duplicate test that finds nothing.
IsDuplicateNever(sums, summary) == FALSE

\* any(existing["summary"] == new_result["summary"] for existing in summaries)
IsDuplicate(sums, summary) == \E i \in 1..Len(sums) : sums[i].summary = summary

\* _handle_inference_callback(): the result is stored unless its summary is
\* already there.
HandleInferenceCallback(summary, key_points, text_length) ==
    /\ n_callbacks' = n_callbacks + 1
    /\ IF ~IsDuplicate(summaries, summary)
       THEN /\ summaries' = Append(summaries,
                                   [timestamp |-> now, summary |-> summary,
                                    key_points |-> key_points,
                                    text_length |-> text_length])
            /\ has_summaries' = TRUE
       ELSE UNCHANGED <<summaries, has_summaries>>

MaxParsedTranscripts == 50

\* The cut that keeps the first 50 instead of the last 50.
TrimParsedOldest(list) ==
    IF Len(list) > MaxParsedTranscripts
    THEN SubSeq(list, 1, MaxParsedTranscripts)
    ELSE list

\* parsed_transcripts = parsed_transcripts[-50:] when longer than 50
TrimParsed(list) ==
    IF Len(list) > MaxParsedTranscripts
    THEN SubSeq(list, Len(list) - MaxParsedTranscripts + 1, Len(list))
    ELSE list

\* ------------------------------------------------- transcription stage

\* What one insert_audio_chunk / process_iter / get_buffer round of the engine
\* returns: the newly committed tokens and the hypothesis buffer.
EngineResult(new_tokens, hyp_text, hyp_end) ==
    [new_tokens |-> new_tokens, hyp_text |-> hyp_text, hyp_end |-> hyp_end,
     raised |-> FALSE]

\* The round raises instead.
EngineRaised == [EngineResult(<<>>, <<>>, 0) EXCEPT !.raised = TRUE]

TokenTexts(toks) == [i \in 1..Len(toks) |-> toks[i].text]

\* _buffer.end if _buffer.end else (new_tokens[-1].end if new_tokens else 0)
EndBufferOf(r) ==
    IF r.hyp_end # 0 THEN r.hyp_end
    ELSE IF r.new_tokens # <<>> THEN r.new_tokens[Len(r.new_tokens)].end
    ELSE 0

\* self.full_transcription += self.sep.join(t.text for t in new_tokens)
FullTranscriptionAfter(full, new_tokens) ==
    IF new_tokens # <<>> THEN full \o Join(TokenTexts(new_tokens), asr_sep) ELSE full

\* The part of process() after the update callback: with a summarizer and new
\* non-blank text, the text is gathered for the parser, and when the trigger
\* interval has passed (due) a parser task is created and the text is cleared.
ParserTrigger(new_tokens, due) ==
    IF llm_enabled /\ new_tokens # <<>>
          /\ HasNonBlank(S2HK(Join(TokenTexts(new_tokens), asr_sep)))
    THEN IF due
         THEN /\ parse_tasks' = parse_tasks + 1
              /\ accumulated_text_for_parser' = FALSE
         ELSE /\ accumulated_text_for_parser' = TRUE
              /\ UNCHANGED parse_tasks
    ELSE UNCHANGED <<parse_tasks, accumulated_text_for_parser>>

\* Queue.task_done(): one unfinished task less.
TaskDone(unfinished) == unfinished - 1

\* An exception handler that acknowledges nothing.
HandlerWithoutTaskDone(unfinished) == unfinished

\* The exception handler of a stage loop, entered with the item taken in
\* this pass of the loop: if "pcm_array" in locals() and pcm_array is not
\* SENTINEL: queue.task_done()
HandlerTaskDone(unfinished) == TaskDone(unfinished)

\* TranscriptionProcessor.process(), one item of the queue.  The sentinel ends
\* the stage.  A frame goes through the engine, whose answer is one of
\* `results`: the outcome is committed by update_transcription(), or the
\* engine raised and the frame is dropped.
TranscriptionStep(results) ==
    /\ transcription_pc \in {"run", "busy"}
    /\ transcription_queue # <<>>
    /\ transcription_queue' = Tail(transcription_queue)
    /\ IF Head(transcription_queue) = SENTINEL
       THEN /\ transcription_pc' = "done"
            /\ transcription_unfinished' = TaskDone(transcription_unfinished)
            /\ UNCHANGED <<tokenVars, parse_tasks, accumulated_text_for_parser,
                           commits_after_stop>>
       ELSE /\ transcription_pc' = IF Tail(transcription_queue) # <<>> THEN "busy" ELSE "run"
            /\ \E r \in results, due \in BOOLEAN :
                 IF r.raised
                 THEN /\ transcription_unfinished' =
                            HandlerTaskDone(transcription_unfinished)
                      /\ UNCHANGED <<tokenVars, parse_tasks, accumulated_text_for_parser,
                                     commits_after_stop>>
                 ELSE LET full == FullTranscriptionAfter(tp_full_transcription,
                                                         r.new_tokens)
                          buffer == IF Contains(r.hyp_text, full) THEN <<>>
                                    ELSE r.hyp_text
                      IN /\ transcription_unfinished' = TaskDone(transcription_unfinished)
                         /\ tp_full_transcription' = full
                         /\ UpdateTranscription(r.new_tokens, buffer, EndBufferOf(r), full,
                                                asr_sep)
                         /\ ParserTrigger(r.new_tokens, due)
                         /\ commits_after_stop' =
                               IF is_stopping THEN commits_after_stop + 1
                               ELSE commits_after_stop
                         /\ UNCHANGED <<buffer_diarization, end_attributed_speaker>>
    /\ UNCHANGED <<is_stopping, decoderVars, restartVars, readerVars, pushVars,
                   diarVars, cfgVars, summaryVars, parser_enabled, parsed_transcripts,
                   last_parsed_transcript, parses_in_flight, n_parsed, clockVars,
                   llm_accumulated, emitVars>>
    /\ UNCHANGED streamVars

\* --------------------------------------------------- diarization stage

Speakers == {1, 2}

\* assign_speakers_to_tokens(): tokens that end by the new watermark and have no
\* speaker yet get one; the tokens are the shared objects, so the shared list
\* changes with them.
AssignSpeakers(toks, new_end, speaker) ==
    [i \in 1..Len(toks) |->
        IF toks[i].speaker = -1 /\ toks[i].end <= new_end
        THEN [toks[i] EXCEPT !.speaker = speaker] ELSE toks[i]]

\* DiarizationProcessor.process(), from the queue get to the awaited diarize():
\* the sentinel ends the stage.
DiarizationStep ==
    /\ LoopFree
    /\ diarization_pc = "run"
    /\ diarization_queue # <<>>
    /\ diarization_queue' = Tail(diarization_queue)
    /\ diarization_pc' = IF Head(diarization_queue) = SENTINEL THEN "done" ELSE "diarizing"
    /\ diarization_unfinished' = IF Head(diarization_queue) = SENTINEL
                                 THEN TaskDone(diarization_unfinished)
                                 ELSE diarization_unfinished
    /\ UNCHANGED <<is_stopping, decoderVars, restartVars, readerVars, pushVars, stageVars,
                   cfgVars, tokenVars, summaryVars, parseVars, clockVars,
                   llm_accumulated, emitVars, commits_after_stop>>
    /\ UNCHANGED streamVars

\* DiarizationProcessor.process(), the awaited diarize() is over: speakers are
\* assigned up to a new watermark, which update_diarization() stores; or the
\* diarizer raised and the frame is dropped.
DiarizationDone ==
    /\ LoopFree
    /\ diarization_pc = "diarizing"
    /\ diarization_pc' = "run"
    /\ \/ \E new_end \in 0..MaxTime, speaker \in Speakers :
            /\ diarization_unfinished' = TaskDone(diarization_unfinished)
            /\ tokens' = AssignSpeakers(tokens, new_end, speaker)
            /\ UpdateDiarization(new_end, <<>>)
            /\ commits_after_stop' =
                  IF is_stopping THEN commits_after_stop + 1 ELSE commits_after_stop
            /\ UNCHANGED <<buffer_transcription, end_buffer, full_transcription,
                           tp_full_transcription, sep>>
       \/ /\ diarization_unfinished' = HandlerTaskDone(diarization_unfinished)
          /\ UNCHANGED <<tokenVars, commits_after_stop>>
    /\ UNCHANGED <<is_stopping, decoderVars, restartVars, readerVars, pushVars, stageVars,
                   diarization_queue, cfgVars, summaryVars, parseVars, clockVars,
                   llm_accumulated, emitVars>>
    /\ UNCHANGED streamVars

\* ------------------------------------------------------------ formatter

Max(a, b) == IF a >= b THEN a ELSE b

Line(speaker, text, beg, end, diff) ==
    [speaker |-> speaker, text |-> text, beg |-> beg, end |-> end, diff |-> diff]

\* Formatter.format_by_speaker(): the loop over the tokens from the i-th on.
RECURSIVE FormatFrom(_, _, _, _, _, _, _)
FormatFrom(toks, i, separator, eas, previous_speaker, lines, last_end_diarized) ==
    IF i > Len(toks) THEN lines
    ELSE LET token == toks[i]
             invalid == token.speaker = -1
             speaker ==
                IF args_diarization /\ invalid /\ token.end >= eas THEN 0
                ELSE IF args_diarization /\ invalid
                THEN (IF previous_speaker >= 0 THEN previous_speaker ELSE 0)
                ELSE token.speaker
             led == IF args_diarization /\ ~invalid
                    THEN Max(token.end, last_end_diarized) ELSE last_end_diarized
         IN IF speaker # previous_speaker \/ lines = <<>>
            THEN FormatFrom(toks, i + 1, separator, eas, speaker,
                            Append(lines, Line(speaker, token.text, FormatTime(token.start),
                                               FormatTime(token.end), token.end - led)),
                            led)
            ELSE IF token.text # <<>>
            THEN FormatFrom(toks, i + 1, separator, eas, previous_speaker,
                            [lines EXCEPT ![Len(lines)] =
                                [@ EXCEPT !.text = @ \o separator \o token.text,
                                          !.end = FormatTime(token.end),
                                          !.diff = token.end - led]],
                            led)
            ELSE FormatFrom(toks, i + 1, separator, eas, previous_speaker, lines, led)

\* A formatter that joins the texts of all tokens into one line.
FormatJoiningAll(toks, separator, eas) ==
    IF toks = <<>> THEN <<>>
    ELSE <<Line(-1, Join([i \in 1..Len(toks) |-> toks[i].text], separator),
                FormatTime(toks[1].start), FormatTime(toks[Len(toks)].end),
                toks[Len(toks)].end)>>

FormatBySpeaker(toks, separator, eas) == FormatFrom(toks, 1, separator, eas, -1, <<>>, 0)

\* The texts of the tokens without a speaker that end at or after the watermark.
RECURSIVE UndiarizedText(_, _)
UndiarizedText(toks, eas) ==
    IF toks = <<>> THEN <<>>
    ELSE (IF Head(toks).speaker = -1 /\ Head(toks).end >= eas
          THEN <<Head(toks).text>> ELSE <<>>) \o UndiarizedText(Tail(toks), eas)

\* [{**line, "text": s2hk(line["text"])} for line in lines]
ConvertLines(lines) == [i \in 1..Len(lines) |-> [lines[i] EXCEPT !.text = S2HK(@)]]

\* The fingerprint without the speaker of each line.
FingerprintTextOnly(final_lines, fbt, fbd) ==
    Join([i \in 1..Len(final_lines) |-> final_lines[i].text], <<" ">>)
    \o <<" ", "|", " ">> \o fbt \o <<" ", "|", " ">> \o fbd

\* " ".join(f"{line['speaker']} {line['text']}" for line in final_lines)
\*    + f" | {final_buffer_transcription} | {final_buffer_diarization}"
Fingerprint(final_lines, fbt, fbd) ==
    Join([i \in 1..Len(final_lines) |->
             SpeakerStr(final_lines[i].speaker) \o <<" ">> \o final_lines[i].text],
         <<" ">>)
    \o <<" ", "|", " ">> \o fbt \o <<" ", "|", " ">> \o fbd

\* get_current_state(): the two remaining-time figures
RemainingTranscription(t) == IF end_buffer > 0 THEN Max(0, t - beg_loop - end_buffer) ELSE 0

RemainingDiarization(toks, eas) ==
    IF args_diarization /\ toks # <<>>
    THEN Max(0, Max(end_buffer, toks[Len(toks)].end) - eas) ELSE 0

\* -------------------------------------------------------------- emitter

\* A snapshot as the emitter yields it; `summaries` is <<>> when the key is absent.
Snapshot(kind, lines, bt, bd, rt, rd, sums) ==
    [kind |-> kind, lines |-> lines, buffer_transcription |-> bt,
     buffer_diarization |-> bd, remaining_time_transcription |-> rt,
     remaining_time_diarization |-> rd, summaries |-> sums]

NoEmit == Snapshot("none", <<>>, <<>>, <<>>, 0, 0, <<>>)

\* The get_current_state() calls of results_formatter() that the parts of a
\* snapshot come from: "first" at the head of a pass, "second" after the
\* dummy token was added, "final" before the final response.
Reads(tokens_read, others_read) ==
    [tokens |-> tokens_read, buffer_transcription |-> others_read,
     buffer_diarization |-> others_read, end_attributed_speaker |-> others_read]

NoReads == Reads("none", "none")

\* A pass that takes every part from the state it read last.
ReadsOfPassAnew(dummy) ==
    Reads(IF dummy THEN "second" ELSE "first", IF dummy THEN "second" ELSE "first")

\* A pass of the loop: all parts are taken from the first read; after the
\* dummy token was added the state is read again and `tokens`, and only
\* `tokens`, is taken from it.
ReadsOfPass(dummy) == Reads(IF dummy THEN "second" ELSE "first", "first")

MaxPolls == 20

\* A termination test that looks at the transcription task only.
TranscriptionDone ==
    ~(args_transcription /\ transcription_pc \notin {"none", "done", "cancelled"})

\* A stage task that has returned or was cancelled is done().
AllProcessorsDone ==
    /\ ~(args_transcription /\ transcription_pc \notin {"none", "done", "cancelled"})
    /\ ~(args_diarization /\ diarization_pc \notin {"none", "done", "cancelled"})

\* A final response that puts in a line when there is none, as the passes of
\* the loop do.
FinalSnapshotWithPlaceholder(toks, bd) ==
    LET raw == ConvertLines(FormatBySpeaker(toks, sep, end_attributed_speaker))
    IN Snapshot("final",
                IF raw = <<>> THEN <<Line(0, <<>>, FormatTime(0), FormatTime(0), 0)>>
                ELSE raw,
                S2HK(buffer_transcription), S2HK(bd), 0, 0, summaries)

\* The final response: the lines of the committed tokens, without a placeholder
\* line, both buffers, remaining times 0, and the summaries there are.
FinalSnapshot(toks, bd) ==
    Snapshot("final", ConvertLines(FormatBySpeaker(toks, sep, end_attributed_speaker)),
             S2HK(buffer_transcription), S2HK(bd), 0, 0, summaries)

YieldFinal(toks, bd) ==
    /\ emit_pc' = "done"
    /\ last_emit' = FinalSnapshot(toks, bd)
    /\ last_emit_reads' = Reads("final", "final")
    /\ emits_after_stop' = emits_after_stop + 1

\* results_formatter(), from the termination check to the next suspension.  Not
\* stopping, or a stage still running: sleep 0.2 s.  Otherwise a hypothesis left
\* in the buffer makes finish_transcription() flush the parser text and hand the
\* engine's remaining text to the summarizer; with summarizer text gathered
\* force_inference() is awaited, and without it the final response is yielded.
Terminate(toks, bd) ==
    IF is_stopping /\ AllProcessorsDone
    THEN \E remaining_nonblank \in BOOLEAN :
           LET finish == buffer_transcription # <<>> /\ transcription_pc # "none"
               accumulated == llm_accumulated \/ (finish /\ llm_enabled /\ remaining_nonblank)
           IN /\ ~finish => ~remaining_nonblank
              /\ llm_accumulated' = accumulated
              /\ IF finish /\ accumulated_text_for_parser
                 THEN /\ parse_tasks' = parse_tasks + 1
                      /\ accumulated_text_for_parser' = FALSE
                 ELSE UNCHANGED <<parse_tasks, accumulated_text_for_parser>>
              /\ IF llm_enabled /\ accumulated
                 THEN /\ emit_pc' = "forcing"
                      /\ initial_summary_count' = Len(summaries)
                      /\ UNCHANGED <<last_emit, last_emit_reads, emits_after_stop>>
                 ELSE /\ YieldFinal(toks, bd)
                      /\ UNCHANGED initial_summary_count
    ELSE /\ emit_pc' = "loop"
         /\ UNCHANGED <<last_emit, last_emit_reads, emits_after_stop, llm_accumulated,
                        initial_summary_count, parse_tasks, accumulated_text_for_parser>>

\* The yield test without the comparison of fingerprints.
ShouldYieldAnyContent(fp, last, final_lines, fbt, fbd) ==
    final_lines # <<>> \/ fbt # <<>> \/ fbd # <<>>

\* if response_content != self.last_response_content
\*    and (final_lines or final_buffer_transcription or final_buffer_diarization)
ShouldYield(fp, last, final_lines, fbt, fbd) ==
    fp # last /\ (final_lines # <<>> \/ fbt # <<>> \/ fbd # <<>>)

\* results_formatter(), one pass of the loop from its head to the yield or, when
\* nothing is yielded, through the termination check.  With undiarized text
\* the pass calls update_diarization() with the watermark it read at its head.
EmitterIterate ==
    /\ LoopFree
    /\ emit_pc = "loop"
    /\ LET dummy == /\ tokens = <<>> \/ tokens[Len(tokens)].is_dummy
                    /\ ~args_transcription
                    /\ args_diarization
       IN \E dt \in 0..(IF dummy THEN 1 ELSE 0), due \in BOOLEAN :
            /\ dummy => (Len(tokens) < MaxTokens /\ now + dt <= MaxNow)
            /\ LET toks == IF dummy THEN Append(tokens, DummyToken) ELSE tokens
                   eas == end_attributed_speaker
                   raw == FormatBySpeaker(toks, sep, eas)
                   undiarized == IF args_diarization THEN UndiarizedText(toks, eas) ELSE <<>>
                   combined == Join(undiarized, sep)
                                  \o (IF buffer_transcription # <<>> THEN sep ELSE <<>>)
                   shared_bd == IF undiarized # <<>> /\ combined # <<>>
                                THEN combined ELSE buffer_diarization
                   local_bd == IF undiarized # <<>> THEN combined ELSE buffer_diarization
                   lines == IF raw = <<>>
                            THEN <<Line(0, <<>>, FormatTime(0),
                                        FormatTime(IF toks # <<>> THEN toks[Len(toks)].end
                                                   ELSE 0), 0)>>
                            ELSE raw
                   final_lines == ConvertLines(lines)
                   fbt == S2HK(buffer_transcription)
                   fbd == S2HK(local_bd)
                   fp == Fingerprint(final_lines, fbt, fbd)
                   checked == has_summaries \/ due
                   response == Snapshot("partial", final_lines, fbt, fbd,
                                        RemainingTranscription(now + dt),
                                        RemainingDiarization(toks, eas),
                                        IF checked THEN summaries ELSE <<>>)
               IN /\ tokens' = toks
                  /\ now' = now + dt
                  /\ IF undiarized # <<>>
                     THEN UpdateDiarization(eas, combined)
                     ELSE UNCHANGED <<end_attributed_speaker, buffer_diarization>>
                  /\ has_summaries' = IF checked THEN summaries # <<>> ELSE has_summaries
                  /\ IF ShouldYield(fp, last_response_content, final_lines, fbt, fbd)
                     THEN /\ emit_pc' = "yielded"
                          /\ response_content' = fp
                          /\ last_emit' = response
                          /\ last_emit_reads' = ReadsOfPass(dummy)
                          /\ emits_after_stop' =
                                IF is_stopping THEN emits_after_stop + 1
                                ELSE emits_after_stop
                          /\ UNCHANGED <<llm_accumulated, initial_summary_count,
                                         parse_tasks, accumulated_text_for_parser>>
                     ELSE /\ Terminate(toks, shared_bd)
                          /\ UNCHANGED response_content
    /\ UNCHANGED <<is_stopping, decoderVars, restartVars, readerVars, pushVars, stageVars,
                   diarVars, cfgVars, buffer_transcription, end_buffer,
                   full_transcription, tp_full_transcription,
                   sep, summaries, n_callbacks, parser_enabled, parsed_transcripts, last_parsed_transcript,
                   parses_in_flight, n_parsed, beg_loop, last_response_content, waited,
                   commits_after_stop>>
    /\ UNCHANGED streamVars

\* results_formatter(), resumed after a yield: the fingerprint of what was
\* yielded is stored, then the termination check.
EmitterResume ==
    /\ LoopFree
    /\ emit_pc = "yielded"
    /\ last_response_content' = response_content
    /\ response_content' = <<>>
    /\ Terminate(tokens, buffer_diarization)
    /\ UNCHANGED <<is_stopping, decoderVars, restartVars, readerVars, pushVars, stageVars,
                   diarVars, cfgVars, tokenVars, summaryVars, parser_enabled,
                   parsed_transcripts, last_parsed_transcript, parses_in_flight, n_parsed,
                   clockVars, waited, commits_after_stop>>
    /\ UNCHANGED streamVars

SummaryTexts == {<<"x">>, <<"y">>, <<"z">>}
TextLengths == {1, 2}

\* results_formatter(), the awaited force_inference() is over: the summarizer
\* has delivered a result to the callback, or it has not.  The 0.5 s polls begin.
EmitterForceInference ==
    /\ LoopFree
    /\ emit_pc = "forcing"
    /\ \/ \E summary \in SummaryTexts, n \in TextLengths :
            HandleInferenceCallback(summary, <<>>, n)
       \/ UNCHANGED summaryVars
    /\ emit_pc' = "polling"
    /\ waited' = 0
    /\ UNCHANGED <<is_stopping, decoderVars, restartVars, readerVars, pushVars, stageVars,
                   diarVars, cfgVars, tokenVars, parseVars, clockVars, llm_accumulated,
                   response_content, last_response_content, initial_summary_count,
                   last_emit, last_emit_reads, emits_after_stop, commits_after_stop>>
    /\ UNCHANGED streamVars

\* A wait that only the 10 s end.
PollEndsAtTimeout(current_summary_count, initial, polls) == polls >= MaxPolls

\* The two breaks of the polling loop: a summary more than at the start of the
\* wait, or waited_time >= max_wait_time.
PollEnds(current_summary_count, initial, polls) ==
    current_summary_count > initial \/ polls >= MaxPolls

\* results_formatter(), one 0.5 s poll: a summary more than before, or the
\* twentieth poll (10 s), ends the wait and the final response is yielded.
EmitterPoll ==
    /\ LoopFree
    /\ emit_pc = "polling"
    /\ IF PollEnds(Len(summaries), initial_summary_count, waited + 1)
       THEN /\ YieldFinal(tokens, buffer_diarization)
            /\ waited' = 0
            /\ initial_summary_count' = 0
       ELSE /\ waited' = waited + 1
            /\ UNCHANGED <<emit_pc, last_emit, last_emit_reads, emits_after_stop, initial_summary_count>>
    /\ UNCHANGED <<is_stopping, decoderVars, restartVars, readerVars, pushVars, stageVars,
                   diarVars, cfgVars, tokenVars, summaryVars, parseVars, clockVars,
                   llm_accumulated, response_content, last_response_content,
                   commits_after_stop>>
    /\ UNCHANGED streamVars

\* ---------------------------------------------- summarizer and parser

\* The summarizer delivers a result to the registered callback.
SummaryCallback(summary, text_length) ==
    /\ LoopFree
    /\ llm_enabled
    /\ HandleInferenceCallback(summary, <<>>, text_length)
    /\ UNCHANGED <<is_stopping, decoderVars, restartVars, readerVars, pushVars, stageVars,
                   diarVars, cfgVars, tokenVars, parseVars, clockVars, llm_accumulated,
                   emitVars, commits_after_stop>>
    /\ UNCHANGED streamVars

\* parse_and_store_transcript(), from its entry to the awaited parser call; with
\* parsing disabled, no parser or blank text it returns at once.
ParseAndStoreBegin(blank) ==
    parses_in_flight' = IF parser_enabled /\ ~blank THEN parses_in_flight + 1
                        ELSE parses_in_flight

\* A task created by the transcription stage runs: it calls
\* parse_and_store_transcript() with the gathered (non-blank) text.
ParseTaskRun ==
    /\ LoopFree
    /\ parse_tasks > 0
    /\ parse_tasks' = parse_tasks - 1
    /\ ParseAndStoreBegin(FALSE)
    /\ UNCHANGED <<is_stopping, decoderVars, restartVars, readerVars, pushVars, stageVars,
                   diarVars, cfgVars, tokenVars, summaryVars, parser_enabled,
                   accumulated_text_for_parser, parsed_transcripts,
                   last_parsed_transcript, n_parsed, clockVars, llm_accumulated,
                   emitVars, commits_after_stop>>
    /\ UNCHANGED streamVars

\* parse_and_store_transcript() called from outside the stage.
ParseAndStoreCall(blank) ==
    /\ LoopFree
    /\ ParseAndStoreBegin(blank)
    /\ UNCHANGED <<is_stopping, decoderVars, restartVars, readerVars, pushVars, stageVars,
                   diarVars, cfgVars, tokenVars, summaryVars, parser_enabled,
                   accumulated_text_for_parser, parse_tasks, parsed_transcripts,
                   last_parsed_transcript, n_parsed, clockVars, llm_accumulated,
                   emitVars, commits_after_stop>>
    /\ UNCHANGED streamVars

\* parse_and_store_transcript(), the parser has answered: the transcript (named
\* by the order of its arrival) is stored and the list cut to its last 50, and a
\* non-empty parsed text goes to the summarizer; or the parser raised.
ParseDone ==
    /\ LoopFree
    /\ parses_in_flight > 0
    /\ parses_in_flight' = parses_in_flight - 1
    /\ \/ \E parsed_text_nonempty \in BOOLEAN :
            /\ n_parsed' = n_parsed + 1
            /\ parsed_transcripts' = TrimParsed(Append(parsed_transcripts, n_parsed + 1))
            /\ last_parsed_transcript' = n_parsed + 1
            /\ llm_accumulated' = (llm_accumulated \/ (llm_enabled /\ parsed_text_nonempty))
       \/ UNCHANGED <<n_parsed, parsed_transcripts, last_parsed_transcript, llm_accumulated>>
    /\ UNCHANGED <<is_stopping, decoderVars, restartVars, readerVars, pushVars, stageVars,
                   diarVars, cfgVars, tokenVars, summaryVars, parser_enabled,
                   accumulated_text_for_parser, parse_tasks, clockVars, emitVars,
                   commits_after_stop>>
    /\ UNCHANGED streamVars

\* AudioInsight.reconfigure(): the given keys are set on the args object, the
\* one the running session reads; nothing is checked and no task is created
\* or ended.
Reconfigure(transcription, diarization) ==
    /\ LoopFree
    /\ <<transcription, diarization>> # <<args_transcription, args_diarization>>
    /\ args_transcription' = transcription
    /\ args_diarization' = diarization
    /\ UNCHANGED <<is_stopping, decoderVars, restartVars, readerVars, pushVars, stageVars,
                   diarVars, llm_enabled, asr_sep, tokenVars, summaryVars, parseVars,
                   clockVars, llm_accumulated, emitVars, commits_after_stop>>
    /\ UNCHANGED streamVars

\* A second passes on the wall clock.
Tick ==
    /\ now < MaxNow
    /\ now' = now + 1
    /\ UNCHANGED <<is_stopping, decoderVars, restartVars, readerVars, pushVars, stageVars,
                   diarVars, cfgVars, tokenVars, summaryVars, parseVars, beg_loop,
                   llm_accumulated, emitVars, commits_after_stop>>
    /\ UNCHANGED streamVars

\* ------------------------------------------------------ specifications

\* No call of stream_chunks_realtime() has been made: the audio comes from
\* a caller of process_audio().
NoStream ==
    /\ chunk_list = <<>>
    /\ chunk_interval = 0
    /\ progress_callback = FALSE
    /\ stream_i = 0
    /\ stream_pc = "none"
    /\ passed = <<>>

\* The decoder side when create_tasks() has returned: one decoder process,
\* started by FFmpegProcessor.__init__, and the reader and watchdog tasks created.
DecoderInit ==
    /\ is_stopping = FALSE
    /\ ffmpeg_process = 1
    /\ proc_stdin_closed = [p \in Procs |-> FALSE]
    /\ proc_stdout_closed = [p \in Procs |-> FALSE]
    /\ proc_alive = [p \in Procs |-> TRUE]
    /\ proc_out = [p \in Procs |-> 0]
    /\ n_spawned = 1
    /\ rpc = [c \in Callers |-> "idle"]
    /\ r_attempt = [c \in Callers |-> 0]
    /\ r_wait = [c \in Callers |-> 0]
    /\ r_proc = [c \in Callers |-> NoProc]
    /\ restarts_begun = 0
    /\ reader_pc = "start"
    /\ reader_proc = NoProc
    /\ pcm_buffer_length = 0
    /\ diarization_buffer_size = 0
    /\ push_pc = "idle"
    /\ push_proc = NoProc
    /\ n_pushes = 0
    /\ last_push = Pushed("none", "none")
    /\ stop_pushed = FALSE
    /\ reset_pc = "idle"
    /\ cleanups = 0

\* The coordinator when create_tasks() has returned, AudioProcessor.__init__:
\* empty shared state, the stage tasks created, the emitter not yet pulled.
CoordInit ==
    /\ transcription_queue = <<>>
    /\ diarization_queue = <<>>
    /\ transcription_unfinished = 0
    /\ diarization_unfinished = 0
    /\ transcription_pc = IF args_transcription THEN "run" ELSE "none"
    /\ diarization_pc = IF args_diarization THEN "run" ELSE "none"
    /\ tokens = <<>>
    /\ buffer_transcription = <<>>
    /\ buffer_diarization = <<>>
    /\ end_buffer = 0
    /\ end_attributed_speaker = 0
    /\ full_transcription = <<>>
    /\ tp_full_transcription = <<>>
    /\ sep = Sep
    /\ summaries = <<>>
    /\ has_summaries = FALSE
    /\ n_callbacks = 0
    /\ accumulated_text_for_parser = FALSE
    /\ parse_tasks = 0
    /\ parsed_transcripts = <<>>
    /\ last_parsed_transcript = 0
    /\ parses_in_flight = 0
    /\ n_parsed = 0
    /\ now = 0
    /\ beg_loop = 0
    /\ llm_accumulated = FALSE
    /\ emit_pc = "loop"
    /\ response_content = <<>>
    /\ last_response_content = <<>>
    /\ waited = 0
    /\ initial_summary_count = 0
    /\ last_emit = NoEmit
    /\ last_emit_reads = NoReads
    /\ emits_after_stop = 0
    /\ commits_after_stop = 0

\* The configuration of a session with an engine that joins with engine_sep.
ConfigWith(transcription, diarization, llm, parser, engine_sep) ==
    /\ args_transcription = transcription
    /\ args_diarization = diarization
    /\ llm_enabled = llm
    /\ parser_enabled = parser
    /\ asr_sep = engine_sep

\* The feature configuration of a session whose engine joins with a space:
\* _validate_args() refuses a configuration with neither transcription nor
\* diarization.
Config(transcription, diarization, llm, parser) ==
    ConfigWith(transcription, diarization, llm, parser, Sep)

Init ==
    /\ NoStream
    /\ Config(TRUE, FALSE, FALSE, TRUE)
    /\ DecoderInit
    /\ CoordInit

DecoderNext ==
    \/ \E m \in Messages : n_pushes < MaxPushes /\ ProcessAudio(m)
    \/ PushWriteDone
    \/ PushFlushDone
    \/ WatchdogRestart
    \/ ReaderIdleRestart
    \/ ReaderStartRead
    \/ ReaderRead(AnyChunk)
    \/ \E c \in Callers : RestartTerminated(c)
    \/ \E c \in Callers : RestartAttempt(c)
    \/ \E p \in Procs : DecoderExit(p)

Spec == Init /\ [][DecoderNext]_vars

\* ------------------------------------------------- the stop signal

\* A step in which a process_audio() call is made (each call is counted).
PushStep == n_pushes' = n_pushes + 1

\* C1: a process_audio(b"") call made while is_stopping is false sets
\* is_stopping and leaves the decoder's input closed, also while a restart is
\* in progress.
C1_StopSignalTakesEffect ==
    [][(PushStep /\ last_push'.message = EmptyMessage /\ ~is_stopping)
          => (is_stopping' /\ ~InputOpen')]_vars

\* A stop signal was ignored and the coordinator is not stopping.
C1_StopSignalLost ==
    /\ last_push = Pushed(EmptyMessage, "ignored_closed")
    /\ ~is_stopping

\* C2: a process_audio() call made while is_stopping is true neither writes to
\* the decoder nor restarts it: no write is begun, no output is produced, no
\* process is spawned and no restart is begun.
C2_NoAudioAfterStop ==
    [][(PushStep /\ is_stopping)
          => /\ push_pc' = "idle"
             /\ proc_out' = proc_out
             /\ n_spawned' = n_spawned
             /\ restarts_begun' = restarts_begun
             /\ rpc' = rpc
             /\ ffmpeg_process' = ffmpeg_process]_vars

\* Audio arrived after the stop signal, with a live decoder whose stdin is open
\* (started by a restart that was under way), and was ignored.
C2_AudioIgnoredWhileStopping ==
    /\ is_stopping
    /\ last_push = Pushed(AudioMessage, "ignored_stopping")
    /\ InputOpen /\ proc_alive[ffmpeg_process]

\* C4: whenever is_stopping is true the decoder's input is closed.
C4_StoppingImpliesInputClosed == is_stopping => ~InputOpen

\* The coordinator is stopping and a restart has left a live decoder with an
\* open stdin.
C4_OpenInputWhileStopping ==
    /\ is_stopping
    /\ InputOpen /\ proc_alive[ffmpeg_process]
    /\ ffmpeg_process > 1

\* ------------------------------------------------------ shared state

EngineTexts == {<<"a">>}
HypothesisTexts == {<<>>, <<"a">>, <<"s">>}

\* The tokens an engine whose last committed token began at ps and ended at pe
\* may commit next: no token precedes the one before it.
TokensFrom(ps, pe) ==
    {t \in [start : ps..MaxTime, end : pe..MaxTime, text : EngineTexts,
            speaker : {-1}, is_dummy : {FALSE}] : t.start <= t.end}

\* The tokens of `toks` that came from the engine.
RECURSIVE EngineTokens(_)
EngineTokens(toks) ==
    IF toks = <<>> THEN <<>>
    ELSE (IF Head(toks).is_dummy THEN <<>> ELSE <<Head(toks)>>) \o EngineTokens(Tail(toks))

\* The batches of at most two tokens the engine may return when `toks` is the
\* shared token list: each follows what the engine committed before.
Batches(toks) ==
    LET own == EngineTokens(toks)
        ps == IF own = <<>> THEN 0 ELSE own[Len(own)].start
        pe == IF own = <<>> THEN 0 ELSE own[Len(own)].end
        one == TokensFrom(ps, pe)
    IN {b \in {<<>>} \cup {<<t>> : t \in one}
                 \cup {<<t, u>> : t \in one, u \in one} :
          /\ Len(toks) + Len(b) <= MaxTokens
          /\ Len(b) = 2 => (b[1].start <= b[2].start /\ b[1].end <= b[2].end)}

\* Every answer of an engine that returns ordered batches: a batch, and a
\* hypothesis that has no end time or ends after the batch; or it raises.
EngineAnswers ==
    {r \in {EngineResult(b, h, e) :
               b \in Batches(tokens), h \in HypothesisTexts, e \in 0..MaxTime} :
        r.hyp_end = 0 \/ r.hyp_end >= EndBufferOf(EngineResult(r.new_tokens, <<>>, 0))}
    \cup {EngineRaised}

\* A session with transcription and diarization and no summarizer, in which
\* the transcription flag may be reconfigured: pushes, reader, transcription
\* stage and emitter run; nothing restarts and the diarizer does not answer.
TokenInit ==
    /\ NoStream
    /\ Config(TRUE, TRUE, FALSE, TRUE)
    /\ DecoderInit
    /\ CoordInit

TokenNext ==
    \/ \E m \in Messages : n_pushes < MaxPushes /\ ProcessAudio(m)
    \/ PushWriteDone
    \/ PushFlushDone
    \/ ReaderStartRead
    \/ ReaderRead(AnyChunk)
    \/ TranscriptionStep(EngineAnswers)
    \/ EmitterIterate
    \/ EmitterResume
    \/ \E transcription \in BOOLEAN : Reconfigure(transcription, args_diarization)

TokenSpec == TokenInit /\ [][TokenNext]_vars

\* C7: the tokens of the shared state are ordered: from each token to the next
\* neither start nor end decreases.
C7_TokensOrdered ==
    \A i \in 1..(Len(tokens) - 1) :
        /\ tokens[i].start <= tokens[i + 1].start
        /\ tokens[i].end <= tokens[i + 1].end

\* A step in which the transcription stage takes a frame from its queue.
FrameStep ==
    /\ transcription_queue # <<>>
    /\ Head(transcription_queue).kind = "frame"
    /\ transcription_queue' = Tail(transcription_queue)

\* C8: after a transcription update end_buffer is at least the end of every
\* token the engine has committed.
C8_EndBufferCoversTokens ==
    [][FrameStep => \A i \in 1..Len(tokens') :
                       ~tokens'[i].is_dummy => tokens'[i].end <= end_buffer']_vars

\* ------------------------------------------------------------ summaries

MaxCallbacks == 4

\* A session with a summarizer that delivers results at any time.
SummaryInit ==
    /\ NoStream
    /\ Config(TRUE, FALSE, TRUE, TRUE)
    /\ DecoderInit
    /\ CoordInit

SummaryNext ==
    \/ \E summary \in SummaryTexts, n \in TextLengths :
          n_callbacks < MaxCallbacks /\ SummaryCallback(summary, n)
    \/ EmitterIterate
    \/ EmitterResume
    \/ Tick

SummarySpec == SummaryInit /\ [][SummaryNext]_vars

NoTwoAlike(sums) ==
    \A i, j \in 1..Len(sums) : i # j => sums[i].summary # sums[j].summary

\* C5: no two entries of summaries have the same summary string; a callback
\* whose summary is already there leaves summaries unchanged, and any other
\* adds exactly one entry, which carries that summary.
C5_SummariesDeduplicated ==
    /\ []NoTwoAlike(summaries)
    /\ [][\A summary \in SummaryTexts, n \in TextLengths :
            SummaryCallback(summary, n) =>
               IF \E i \in 1..Len(summaries) : summaries[i].summary = summary
               THEN summaries' = summaries
               ELSE /\ Len(summaries') = Len(summaries) + 1
                    /\ SubSeq(summaries', 1, Len(summaries)) = summaries
                    /\ summaries'[Len(summaries')].summary = summary]_vars

\* Callbacks have come with summaries already stored and with new ones: two
\* entries are stored and more than two callbacks were made.
C5_DuplicateCallbackSeen ==
    /\ Len(summaries) = 2
    /\ n_callbacks > 2

\* ---------------------------------------------------- parsed transcripts

MaxParses == 52
MaxInFlight == 2

\* A session in which parse_and_store_transcript() is called at any time, also
\* while earlier calls still wait for the parser.
ParseInit ==
    /\ NoStream
    /\ Config(TRUE, FALSE, TRUE, TRUE)
    /\ DecoderInit
    /\ CoordInit

ParseNext ==
    \/ \E blank \in BOOLEAN :
          /\ parses_in_flight < MaxInFlight
          /\ n_parsed + parses_in_flight < MaxParses
          /\ ParseAndStoreCall(blank)
    \/ ParseDone

ParseSpec == ParseInit /\ [][ParseNext]_vars

Min(a, b) == IF a <= b THEN a ELSE b

\* C6: at most 50 parsed transcripts are stored, and they are the 50 stored
\* last, in the order of their arrival.
C6_ParsedTranscriptsBounded ==
    /\ Len(parsed_transcripts) <= MaxParsedTranscripts
    /\ Len(parsed_transcripts) = Min(n_parsed, MaxParsedTranscripts)
    /\ \A i \in 1..Len(parsed_transcripts) :
          parsed_transcripts[i] = n_parsed - Len(parsed_transcripts) + i

\* More than 50 transcripts have arrived, the last while another call was
\* still waiting for the parser.
C6_OlderTranscriptsDropped ==
    /\ n_parsed > MaxParsedTranscripts
    /\ Len(parsed_transcripts) = MaxParsedTranscripts
    /\ parses_in_flight > 0

\* ------------------------------------------------------------ emissions

LeanTexts == {<<>>, <<"s">>}

\* An engine that commits at most one token a frame, with or without text, and
\* may leave a hypothesis; or it raises.
EngineLean ==
    {EngineResult(b, h, 0) :
        b \in {<<>>} \cup (IF Len(tokens) < MaxTokens
                           THEN {<<Token(0, 1, x, -1, FALSE)>> : x \in LeanTexts}
                           ELSE {}),
        h \in LeanTexts}
    \cup {EngineRaised}

\* Sessions without a summarizer in each configuration _validate_args() lets
\* through: pushes, reader, both stages and the emitter run; nothing restarts.
EmitInit ==
    /\ NoStream
    /\ \E transcription \in BOOLEAN, diarization \in BOOLEAN :
         /\ transcription \/ diarization
         /\ Config(transcription, diarization, FALSE, TRUE)
    /\ DecoderInit
    /\ CoordInit

EmitNext ==
    \/ \E m \in Messages : n_pushes < MaxPushes /\ ProcessAudio(m)
    \/ PushWriteDone
    \/ PushFlushDone
    \/ ReaderStartRead
    \/ ReaderRead(AnyChunk)
    \/ TranscriptionStep(EngineLean)
    \/ DiarizationStep
    \/ DiarizationDone
    \/ EmitterIterate
    \/ EmitterResume

EmitSpec == EmitInit /\ [][EmitNext]_vars

\* A step in which the emitter yields a snapshot.
EmissionStep ==
    \/ emit_pc = "loop" /\ emit_pc' = "yielded"
    \/ emit_pc # "done" /\ emit_pc' = "done"

FingerprintOf(e) == Fingerprint(e.lines, e.buffer_transcription, e.buffer_diarization)

\* The content test of the emitter: a line or a non-empty buffer.
HasContent(e) ==
    e.lines # <<>> \/ e.buffer_transcription # <<>> \/ e.buffer_diarization # <<>>

\* C9: of two snapshots yielded one after the other, the final one included,
\* the fingerprints differ or both carry content (a line or a non-empty
\* buffer, as the emitter tests it).
C9_ConsecutiveSnapshotsDiffer ==
    [][(EmissionStep /\ last_emit.kind # "none")
          => \/ FingerprintOf(last_emit') # FingerprintOf(last_emit)
             \/ HasContent(last_emit') /\ HasContent(last_emit)]_vars

\* The final snapshot was yielded without content, after a partial one.
C9_EmptyFinalSnapshot ==
    /\ emit_pc = "done"
    /\ last_emit.kind = "final"
    /\ ~HasContent(last_emit)
    /\ last_response_content # <<>>

\* ------------------------------------------------------ the stream ends

QuietTexts == {<<>>, <<"a">>}

\* An engine that commits no token and may leave a hypothesis; or it raises.
EngineQuiet == {EngineResult(<<>>, h, 0) : h \in QuietTexts} \cup {EngineRaised}

\* A session with transcription and a summarizer.
FairInit ==
    /\ NoStream
    /\ Config(TRUE, FALSE, TRUE, TRUE)
    /\ DecoderInit
    /\ CoordInit

FairNext ==
    \/ DecoderNext
    \/ TranscriptionStep(EngineQuiet)
    \/ EmitterIterate
    \/ EmitterResume
    \/ EmitterForceInference
    \/ EmitterPoll

\* Every task of the event loop that can run does run in the end; the executor
\* finishes every write, flush and read that can finish; the consumer keeps
\* pulling.  Nothing is assumed of the callers of process_audio(), of the
\* watchdog's and the reader's idle timers or of the decoder's exit.
FairSpec ==
    /\ FairInit
    /\ [][FairNext]_vars
    /\ WF_vars(PushWriteDone)
    /\ WF_vars(PushFlushDone)
    /\ WF_vars(ReaderStartRead)
    /\ WF_vars(ReaderRead(AnyChunk))
    /\ \A c \in Callers : WF_vars(RestartTerminated(c)) /\ WF_vars(RestartAttempt(c))
    /\ WF_vars(TranscriptionStep(EngineQuiet))
    /\ WF_vars(EmitterIterate)
    /\ WF_vars(EmitterResume)
    /\ WF_vars(EmitterForceInference)
    /\ WF_vars(EmitterPoll)

\* C3: once a stop signal has been pushed, the emitter eventually yields the
\* final snapshot and ends.
C3_StreamEnds == stop_pushed ~> (emit_pc = "done")

\* ---------------------------------------------------------- draining

DrainBacklog == 52

\* The final wait for a summary, max_wait_time, and the emitter's sleep between
\* two passes, in tenths of a second.
MaxWaitTenths == 100
SleepTenths == 2

\* ceil(10 s / 0.2 s) + 1
SnapshotBound == (MaxWaitTenths + SleepTenths - 1) \div SleepTenths + 1

\* An engine that commits no token and leaves any hypothesis.
EngineHypotheses == {EngineResult(<<>>, h, 0) : h \in HypothesisTexts}

\* The decoder delivers its output in chunks of half a second.
HalfSecondChunks == {BufferSize(5)}

\* A session with transcription only at the moment the stop signal has been
\* accepted: DrainBacklog chunks were written and are still to come out of the
\* decoder, the reader awaits its read, and the consumer has not pulled a
\* snapshot yet.
DrainInit ==
    /\ NoStream
    /\ Config(TRUE, FALSE, FALSE, TRUE)
    /\ is_stopping = TRUE
    /\ ffmpeg_process = 1
    /\ proc_stdin_closed = [p \in Procs |-> p = 1]
    /\ proc_stdout_closed = [p \in Procs |-> FALSE]
    /\ proc_alive = [p \in Procs |-> TRUE]
    /\ proc_out = [p \in Procs |-> IF p = 1 THEN DrainBacklog ELSE 0]
    /\ n_spawned = 1
    /\ rpc = [c \in Callers |-> "idle"]
    /\ r_attempt = [c \in Callers |-> 0]
    /\ r_wait = [c \in Callers |-> 0]
    /\ r_proc = [c \in Callers |-> NoProc]
    /\ restarts_begun = 0
    /\ reader_pc = "reading"
    /\ reader_proc = 1
    /\ pcm_buffer_length = 0
    /\ diarization_buffer_size = 0
    /\ push_pc = "idle"
    /\ push_proc = NoProc
    /\ n_pushes = DrainBacklog + 1
    /\ last_push = Pushed(EmptyMessage, "stop")
    /\ stop_pushed = TRUE
    /\ reset_pc = "idle"
    /\ cleanups = 0
    /\ CoordInit

\* The decoder is slower than the engine: a read returns when the frame before
\* has been transcribed.
DrainNext ==
    \/ transcription_queue = <<>> /\ ReaderRead(HalfSecondChunks)
    \/ TranscriptionStep(EngineHypotheses)
    \/ EmitterIterate
    \/ EmitterResume

DrainSpec == DrainInit /\ [][DrainNext]_vars

\* C10 as stated: after the stop signal at most ceil(10 s / 0.2 s) + 1 = 51
\* further snapshots are yielded.
C10_AtMostFiftyOneSnapshots == emits_after_stop <= SnapshotBound

\* C10, amended: with transcription alone, the snapshots yielded after the stop
\* signal are at most two more than the updates the stage commits while it
\* drains (one for what changed before the signal, and the final one).
C10_SnapshotsBoundedByCommits == emits_after_stop <= commits_after_stop + 2

\* The stream has ended after more than 51 further snapshots.
C10_LongDrain ==
    /\ emit_pc = "done"
    /\ emits_after_stop > SnapshotBound

\* --------------------------------------------------------------- frames

FrameBacklog == 4

\* Reads of the minimum size, of half a second, and of more than
\* max_bytes_per_sec (a pass that took 5.2 s).
FrameChunks == {BufferSize(0), BufferSize(5), BufferSize(52)}

\* A session with transcription only in which FrameBacklog messages have been
\* written and are still to come out of the decoder: the reader awaits its
\* read, the stage its queue, and the consumer has not pulled a snapshot yet.
FrameInit ==
    /\ NoStream
    /\ Config(TRUE, FALSE, FALSE, TRUE)
    /\ is_stopping = FALSE
    /\ ffmpeg_process = 1
    /\ proc_stdin_closed = [p \in Procs |-> FALSE]
    /\ proc_stdout_closed = [p \in Procs |-> FALSE]
    /\ proc_alive = [p \in Procs |-> TRUE]
    /\ proc_out = [p \in Procs |-> IF p = 1 THEN FrameBacklog ELSE 0]
    /\ n_spawned = 1
    /\ rpc = [c \in Callers |-> "idle"]
    /\ r_attempt = [c \in Callers |-> 0]
    /\ r_wait = [c \in Callers |-> 0]
    /\ r_proc = [c \in Callers |-> NoProc]
    /\ restarts_begun = 0
    /\ reader_pc = "reading"
    /\ reader_proc = 1
    /\ pcm_buffer_length = 0
    /\ diarization_buffer_size = 0
    /\ push_pc = "idle"
    /\ push_proc = NoProc
    /\ n_pushes = FrameBacklog
    /\ last_push = Pushed(AudioMessage, "written")
    /\ stop_pushed = FALSE
    /\ reset_pc = "idle"
    /\ cleanups = 0
    /\ CoordInit

\* The reader and the stage run, and the caller may push the stop signal.
FrameNext ==
    \/ ReaderRead(FrameChunks)
    \/ TranscriptionStep(EngineQuiet)
    \/ n_pushes = FrameBacklog /\ ProcessAudio(EmptyMessage)

FrameSpec == FrameInit /\ [][FrameNext]_vars

\* C11: with min_chunk_size = 0.5 s every frame on the transcription queue
\* holds at least 0.5 s of audio (8000 samples, 16 000 bytes), but for the last
\* frame of the stream: a frame that another frame follows is never shorter.
C11_FramesHoldMinChunk ==
    \A i, j \in 1..Len(transcription_queue) :
        (i < j /\ transcription_queue[j].kind = "frame")
           => transcription_queue[i].samples >= SamplesPerSec

\* A frame of 8192 bytes (4096 samples, a quarter of a second) is on the queue
\* and another frame has followed it.
C11_ShortFrameMidStream ==
    \E i, j \in 1..Len(transcription_queue) :
        /\ i < j
        /\ transcription_queue[j].kind = "frame"
        /\ transcription_queue[i].samples = ConvertPcmToFloat(MinTranscriptionBuffer)
        /\ transcription_queue[i].samples < SamplesPerSec

\* ---------------------------------------------------- diarization queue

DiarBacklog == 7

\* Reads of half a second and of two seconds.
DiarChunks == {BufferSize(5), BufferSize(20)}

\* A session with diarization only in which DiarBacklog messages have been
\* written and are still to come out of the decoder.
DiarInit ==
    /\ NoStream
    /\ Config(FALSE, TRUE, FALSE, TRUE)
    /\ is_stopping = FALSE
    /\ ffmpeg_process = 1
    /\ proc_stdin_closed = [p \in Procs |-> FALSE]
    /\ proc_stdout_closed = [p \in Procs |-> FALSE]
    /\ proc_alive = [p \in Procs |-> TRUE]
    /\ proc_out = [p \in Procs |-> IF p = 1 THEN DiarBacklog ELSE 0]
    /\ n_spawned = 1
    /\ rpc = [c \in Callers |-> "idle"]
    /\ r_attempt = [c \in Callers |-> 0]
    /\ r_wait = [c \in Callers |-> 0]
    /\ r_proc = [c \in Callers |-> NoProc]
    /\ restarts_begun = 0
    /\ reader_pc = "reading"
    /\ reader_proc = 1
    /\ pcm_buffer_length = 0
    /\ diarization_buffer_size = 0
    /\ push_pc = "idle"
    /\ push_proc = NoProc
    /\ n_pushes = DiarBacklog
    /\ last_push = Pushed(AudioMessage, "written")
    /\ stop_pushed = FALSE
    /\ reset_pc = "idle"
    /\ cleanups = 0
    /\ CoordInit

\* The reader and the diarization stage run, the diarizer as slow as it likes,
\* and the caller may push the stop signal.
DiarNext ==
    \/ ReaderRead(DiarChunks)
    \/ DiarizationStep
    \/ DiarizationDone
    \/ n_pushes = DiarBacklog /\ ProcessAudio(EmptyMessage)

DiarSpec == DiarInit /\ [][DiarNext]_vars

\* The frames among the items of a queue.
RECURSIVE FramesIn(_)
FramesIn(queue) ==
    IF queue = <<>> THEN 0
    ELSE (IF Head(queue).kind = "frame" THEN 1 ELSE 0) + FramesIn(Tail(queue))

\* C12 as stated: the diarization queue never holds more than 5 items, frames
\* and sentinel together.
C12_AtMostFiveItems == Len(diarization_queue) <= DiarizationQueueLimit

\* C12, amended: the diarization queue never holds more than 5 frames, and
\* with the sentinel never more than 6 items; while 5 items wait no frame is
\* put (the audio gathered is dropped), and only the sentinel may follow.
C12_AtMostFiveFrames ==
    /\ [](FramesIn(diarization_queue) <= DiarizationQueueLimit)
    /\ [](Len(diarization_queue) <= DiarizationQueueLimit + 1)
    /\ [][(Len(diarization_queue) >= DiarizationQueueLimit
             /\ Len(diarization_queue') > Len(diarization_queue))
            => /\ diarization_queue' = Append(diarization_queue, SENTINEL)
               /\ diarization_buffer_size' = diarization_buffer_size]_vars

\* Five frames of two seconds and the sentinel wait on the queue: every read
\* has been made, and the reader has put the sentinel behind the five frames.
C12_FullQueueAndSentinel ==
    /\ Len(diarization_queue) = DiarizationQueueLimit + 1
    /\ diarization_queue[DiarizationQueueLimit + 1] = SENTINEL
    /\ \A i \in 1..DiarizationQueueLimit :
          diarization_queue[i] = Frame(ConvertPcmToFloat(BufferSize(20)))
    /\ diarization_pc = "run"
    /\ proc_out[1] = 0
    /\ diarization_buffer_size = 0

\* ------------------------------------------------------- push timeouts

\* A step in which the awaited write or flush of a push times out.
TimeoutStep ==
    /\ push_pc \in {"writing", "flushing"}
    /\ last_push'.did \in {"write_timeout", "flush_timeout"}

\* C13: a push whose write or flush times out leaves is_stopping as it is,
\* begins no restart and touches no decoder, and the call returns (the caller
\* is idle again) without an exception.
C13_TimeoutOnlyReturns ==
    [][TimeoutStep =>
          /\ is_stopping' = is_stopping
          /\ restarts_begun' = restarts_begun
          /\ rpc' = rpc
          /\ ffmpeg_process' = ffmpeg_process
          /\ proc_stdin_closed' = proc_stdin_closed
          /\ push_pc' = "idle"
          /\ last_push'.did # "raised"]_vars

\* A push has ended in a flush timeout: the coordinator is not stopping and no
\* restart has ever begun.
C13_FlushTimedOut ==
    /\ last_push.did = "flush_timeout"
    /\ push_pc = "idle"
    /\ ~is_stopping
    /\ restarts_begun = 0

\* ---------------------------------------------------------- force_reset

\* task.cancel() on a task that exists and has not finished
Cancel(pc) == IF pc \in {"none", "done"} THEN pc ELSE "cancelled"

\* force_reset(), from its entry to the awaited gather(): is_stopping is set
\* and every task of the session is cancelled, the reader and the watchdog
\* together with the restart_ffmpeg() call they may be in.  The emitter is a
\* generator of the consumer, not a task of the session: it runs on.
ForceResetBegin ==
    /\ LoopFree
    /\ push_pc = "idle"
    /\ reset_pc = "idle"
    /\ reset_pc' = "waiting"
    /\ is_stopping' = TRUE
    /\ reader_pc' = Cancel(reader_pc)
    /\ reader_proc' = NoProc
    /\ transcription_pc' = Cancel(transcription_pc)
    /\ diarization_pc' = Cancel(diarization_pc)
    /\ rpc' = [c \in Callers |-> IF c = "push" THEN rpc[c] ELSE "cancelled"]
    /\ r_proc' = [c \in Callers |-> IF c = "push" THEN r_proc[c] ELSE NoProc]
    /\ UNCHANGED <<decoderVars, r_attempt, r_wait, restarts_begun, bufferVars, push_pc,
                   push_proc, n_pushes, last_push, stop_pushed, cleanups, queueVars,
                   cfgVars,
                   tokenVars, summaryVars, parseVars, clockVars, llm_accumulated,
                   emitVars, commits_after_stop>>
    /\ UNCHANGED streamVars

\* A cleanup that tears the process down and empties the buffers but keeps
\* the handle.
CleanupKeepingHandle(killed) ==
    /\ proc_stdin_closed' = CloseStdin(proc_stdin_closed, ffmpeg_process)
    /\ proc_stdout_closed' = CloseStdin(proc_stdout_closed, ffmpeg_process)
    /\ proc_out' = DropOutput(proc_out, ffmpeg_process)
    /\ proc_alive' = IF ffmpeg_process # NoProc /\ killed
                     THEN [proc_alive EXCEPT ![ffmpeg_process] = FALSE]
                     ELSE proc_alive
    /\ ffmpeg_process' = ffmpeg_process
    /\ pcm_buffer_length' = 0
    /\ diarization_buffer_size' = 0

\* FFmpegProcessor.cleanup(): the pipes of the process the handle names are
\* closed and the process is terminated (killed, or it outlives the kill); the
\* handle is cleared and the buffers are emptied.
Cleanup(killed) ==
    /\ proc_stdin_closed' = CloseStdin(proc_stdin_closed, ffmpeg_process)
    /\ proc_stdout_closed' = CloseStdin(proc_stdout_closed, ffmpeg_process)
    /\ proc_out' = DropOutput(proc_out, ffmpeg_process)
    /\ proc_alive' = IF ffmpeg_process # NoProc /\ killed
                     THEN [proc_alive EXCEPT ![ffmpeg_process] = FALSE]
                     ELSE proc_alive
    /\ ffmpeg_process' = NoProc
    /\ pcm_buffer_length' = 0
    /\ diarization_buffer_size' = 0

\* force_reset(), from the return of its last await to its own return: the
\* queues are emptied and dropped, the decoder is cleaned up, the processors
\* and the summarizer are dropped, the shared state is cleared under the lock,
\* the task references are dropped, beg_loop is set to the current time and
\* is_stopping to False.  No statement of it assigns sep.
ForceResetDone ==
    /\ LoopFree
    /\ reset_pc = "waiting"
    /\ reset_pc' = "reset"
    /\ transcription_queue' = <<>>
    /\ diarization_queue' = <<>>
    /\ transcription_unfinished' = transcription_unfinished - Len(transcription_queue)
    /\ diarization_unfinished' = diarization_unfinished - Len(diarization_queue)
    /\ \E killed \in BOOLEAN : Cleanup(killed)
    /\ cleanups' = cleanups + 1
    /\ transcription_pc' = "none"
    /\ diarization_pc' = "none"
    /\ reader_pc' = "none"
    /\ tp_full_transcription' = <<>>
    /\ accumulated_text_for_parser' = FALSE
    /\ llm_enabled' = FALSE
    /\ llm_accumulated' = FALSE
    /\ tokens' = <<>>
    /\ buffer_transcription' = <<>>
    /\ buffer_diarization' = <<>>
    /\ full_transcription' = <<>>
    /\ end_buffer' = 0
    /\ end_attributed_speaker' = 0
    /\ last_response_content' = <<>>
    /\ summaries' = <<>>
    /\ has_summaries' = FALSE
    /\ parsed_transcripts' = <<>>
    /\ last_parsed_transcript' = 0
    /\ beg_loop' = now
    /\ is_stopping' = FALSE
    /\ UNCHANGED <<n_spawned, restartVars, reader_proc, push_pc, push_proc, n_pushes,
                   last_push, stop_pushed, args_transcription, args_diarization,
                   asr_sep, sep, n_callbacks, parser_enabled, parse_tasks,
                   parses_in_flight, n_parsed, now, emit_pc, response_content,
                   waited, initial_summary_count, last_emit, last_emit_reads, emits_after_stop,
                   commits_after_stop>>
    /\ UNCHANGED streamVars

\* The separators of the engines: a space, or nothing between the words.
EngineSeps == {Sep, <<>>}

MaxResetCallbacks == 1

\* A session with transcription, a summarizer and a parser, whose engine joins
\* with one of the separators, in which force_reset() is called while no push
\* is under way; the model ends where force_reset() returns.
ResetInit ==
    /\ NoStream
    /\ \E engine_sep \in EngineSeps : ConfigWith(TRUE, FALSE, TRUE, TRUE, engine_sep)
    /\ DecoderInit
    /\ CoordInit

ResetNext ==
    \/ /\ reset_pc # "reset"
       /\ \/ \E m \in Messages : n_pushes < MaxPushes /\ ProcessAudio(m)
          \/ PushWriteDone
          \/ PushFlushDone
          \/ ReaderStartRead
          \/ ReaderRead(HalfSecondChunks)
          \/ TranscriptionStep(EngineLean)
          \/ \E summary \in SummaryTexts, n \in TextLengths :
                n_callbacks < MaxResetCallbacks /\ SummaryCallback(summary, n)
          \/ ParseTaskRun
          \/ ParseDone
          \/ EmitterIterate
          \/ EmitterResume
    \/ ForceResetBegin
    \/ ForceResetDone

ResetSpec == ResetInit /\ [][ResetNext]_vars

\* The step in which force_reset() returns.
ResetReturns == reset_pc = "waiting" /\ reset_pc' = "reset"

\* The fields of the shared state that force_reset() does set, as a new
\* AudioProcessor has them.
ClearedState ==
    /\ tokens = <<>>
    /\ buffer_transcription = <<>>
    /\ buffer_diarization = <<>>
    /\ end_buffer = 0
    /\ end_attributed_speaker = 0
    /\ full_transcription = <<>>
    /\ summaries = <<>>
    /\ parsed_transcripts = <<>>
    /\ last_parsed_transcript = 0
    /\ last_response_content = <<>>
    /\ ~is_stopping

\* C14: when force_reset() has returned, every field of the shared state has
\* the value it has in a new AudioProcessor: the cleared fields, and the
\* separator, which is a space.
C14_ResetRestoresEveryField ==
    reset_pc = "reset" => ClearedState /\ sep = Sep

\* force_reset() has returned after a session whose engine joins with nothing
\* and which had stored a summary and a parsed transcript: the fields
\* it sets are cleared, and the separator is still the engine's.
C14_SeparatorSurvivesReset ==
    /\ reset_pc = "reset"
    /\ ClearedState
    /\ n_callbacks > 0
    /\ n_parsed > 0
    /\ sep = <<>>

\* ------------------------------------------------------- silent session

\* A session of the default configuration into which no audio is ever pushed:
\* every push is the stop signal.  Reader, watchdog, restarts, transcription
\* stage and emitter run as they do in any session.
SilentInit ==
    /\ NoStream
    /\ Config(TRUE, FALSE, FALSE, TRUE)
    /\ DecoderInit
    /\ CoordInit

SilentNext ==
    \/ n_pushes < MaxPushes /\ ProcessAudio(EmptyMessage)
    \/ WatchdogRestart
    \/ ReaderIdleRestart
    \/ ReaderStartRead
    \/ ReaderRead(AnyChunk)
    \/ \E c \in Callers : RestartTerminated(c)
    \/ \E c \in Callers : RestartAttempt(c)
    \/ \E p \in Procs : DecoderExit(p)
    \/ TranscriptionStep(EngineQuiet)
    \/ EmitterIterate
    \/ EmitterResume

SilentSpec == SilentInit /\ [][SilentNext]_vars

\* The snapshot of the emitter's first pass over an empty state: the line put
\* in for want of any, speaker 0 with no text, and nothing else.
PlaceholderSnapshot ==
    Snapshot("partial", <<Line(0, <<>>, FormatTime(0), FormatTime(0), 0)>>,
             <<>>, <<>>, 0, 0, <<>>)

\* The final snapshot of a session without content.
EmptyFinalSnapshot == Snapshot("final", <<>>, <<>>, <<>>, 0, 0, <<>>)

MaxFormatTokens == 3

\* The texts of the engine's tokens: a word, or nothing.
FormatTexts == {<<>>, <<"a">>, <<"b">>}

\* Token sequences as the transcription stage stores them with diarization
\* disabled: one second each, in order, no speaker assigned.
FormatTokens ==
    UNION {{[i \in 1..n |-> Token(i - 1, i, texts[i], -1, FALSE)] :
               texts \in [1..n -> FormatTexts]} : n \in 1..MaxFormatTokens}

\* A session with diarization disabled whose shared state holds such tokens,
\* stored with the separator of the engine; the emitter formats them.
FormatInit ==
    /\ NoStream
    /\ \E engine_sep \in EngineSeps : ConfigWith(TRUE, FALSE, FALSE, TRUE, engine_sep)
    /\ DecoderInit
    /\ transcription_queue = <<>>
    /\ diarization_queue = <<>>
    /\ transcription_unfinished = 0
    /\ diarization_unfinished = 0
    /\ transcription_pc = "run"
    /\ diarization_pc = "none"
    /\ tokens \in FormatTokens
    /\ buffer_transcription = <<>>
    /\ buffer_diarization = <<>>
    /\ end_buffer = Len(tokens)
    /\ end_attributed_speaker = 0
    /\ sep = asr_sep
    /\ full_transcription = Join([i \in 1..Len(tokens) |-> tokens[i].text], sep)
    /\ tp_full_transcription = full_transcription
    /\ summaries = <<>>
    /\ has_summaries = FALSE
    /\ n_callbacks = 0
    /\ accumulated_text_for_parser = FALSE
    /\ parse_tasks = 0
    /\ parsed_transcripts = <<>>
    /\ last_parsed_transcript = 0
    /\ parses_in_flight = 0
    /\ n_parsed = 0
    /\ now = MaxNow
    /\ beg_loop = 0
    /\ llm_accumulated = FALSE
    /\ emit_pc = "loop"
    /\ response_content = <<>>
    /\ last_response_content = <<>>
    /\ waited = 0
    /\ initial_summary_count = 0
    /\ last_emit = NoEmit
    /\ last_emit_reads = NoReads
    /\ emits_after_stop = 0
    /\ commits_after_stop = 0

FormatNext ==
    \/ EmitterIterate
    \/ EmitterResume

FormatSpec == FormatInit /\ [][FormatNext]_vars

\* The lines of the stored tokens in speaker mode.
SpeakerLines == FormatBySpeaker(tokens, sep, end_attributed_speaker)

HasText(token) == token.text # <<>>

\* The tokens that make the line: the first one, and every later one that
\* has a text.
Kept(toks) == <<Head(toks)>> \o SelectSeq(Tail(toks), HasText)

TextsOf(toks) == [i \in 1..Len(toks) |-> toks[i].text]

MaxShutdownCallbacks == 2

\* A session with a summarizer at orderly shutdown: the stop signal has been
\* accepted, the decoder has ended, reader and transcription stage are done.
\* The summarizer has gathered text or it has not, it may have delivered a
\* summary before, and it may deliver results at any time.
ShutdownInit ==
    /\ NoStream
    /\ Config(TRUE, FALSE, TRUE, TRUE)
    /\ is_stopping = TRUE
    /\ ffmpeg_process = 1
    /\ proc_stdin_closed = [p \in Procs |-> p = 1]
    /\ proc_stdout_closed = [p \in Procs |-> FALSE]
    /\ proc_alive = [p \in Procs |-> p # 1]
    /\ proc_out = [p \in Procs |-> 0]
    /\ n_spawned = 1
    /\ rpc = [c \in Callers |-> "idle"]
    /\ r_attempt = [c \in Callers |-> 0]
    /\ r_wait = [c \in Callers |-> 0]
    /\ r_proc = [c \in Callers |-> NoProc]
    /\ restarts_begun = 0
    /\ reader_pc = "done"
    /\ reader_proc = NoProc
    /\ pcm_buffer_length = 0
    /\ diarization_buffer_size = 0
    /\ push_pc = "idle"
    /\ push_proc = NoProc
    /\ n_pushes = 1
    /\ last_push = Pushed(EmptyMessage, "stop")
    /\ stop_pushed = TRUE
    /\ reset_pc = "idle"
    /\ cleanups = 0
    /\ transcription_queue = <<>>
    /\ diarization_queue = <<>>
    /\ transcription_unfinished = 0
    /\ diarization_unfinished = 0
    /\ transcription_pc = "done"
    /\ diarization_pc = "none"
    /\ tokens = <<>>
    /\ buffer_transcription = <<>>
    /\ buffer_diarization = <<>>
    /\ end_buffer = 0
    /\ end_attributed_speaker = 0
    /\ full_transcription = <<>>
    /\ tp_full_transcription = <<>>
    /\ sep = Sep
    /\ \E before \in BOOLEAN :
          /\ summaries = IF before
                         THEN <<[timestamp |-> 0, summary |-> <<"x">>,
                                 key_points |-> <<>>, text_length |-> 1]>>
                         ELSE <<>>
          /\ has_summaries = before
          /\ n_callbacks = IF before THEN 1 ELSE 0
    /\ accumulated_text_for_parser = FALSE
    /\ parse_tasks = 0
    /\ parsed_transcripts = <<>>
    /\ last_parsed_transcript = 0
    /\ parses_in_flight = 0
    /\ n_parsed = 0
    /\ now = 0
    /\ beg_loop = 0
    /\ llm_accumulated \in BOOLEAN
    /\ emit_pc = "loop"
    /\ response_content = <<>>
    /\ last_response_content = <<>>
    /\ waited = 0
    /\ initial_summary_count = 0
    /\ last_emit = NoEmit
    /\ last_emit_reads = NoReads
    /\ emits_after_stop = 0
    /\ commits_after_stop = 0

ShutdownNext ==
    \/ EmitterIterate
    \/ EmitterResume
    \/ EmitterForceInference
    \/ EmitterPoll
    \/ \E summary \in SummaryTexts, n \in TextLengths :
          n_callbacks < MaxShutdownCallbacks /\ SummaryCallback(summary, n)

ShutdownSpec == ShutdownInit /\ [][ShutdownNext]_vars

\* Steps of the emitter at shutdown: force_inference() is called, a poll is
\* made, the final snapshot is yielded.
CallsForceInference == emit_pc # "forcing" /\ emit_pc' = "forcing"
Polls == emit_pc = "polling" /\ (emit_pc' = "done" \/ waited' # waited)
YieldsFinal == emit_pc # "done" /\ emit_pc' = "done"

\* C17: at orderly shutdown the emitter calls force_inference() when, and only
\* when, the summarizer holds gathered text, and no second time; it then polls
\* every 0.5 s, at most 20 times, and a poll that finds a summary more than at
\* the start of the wait, or the twentieth poll, ends the wait; the final
\* snapshot is yielded whether or not a summary came, and carries every
\* summary stored by then.
C17_ForceOnceThenPoll ==
    /\ [](waited < MaxPolls)
    /\ [](emit_pc = "done" => last_emit.kind = "final")
    /\ [][/\ CallsForceInference => llm_accumulated' /\ emit_pc \in {"loop", "yielded"}
          /\ emit_pc \in {"polling", "done"} => emit_pc' # "forcing"
          /\ (YieldsFinal /\ emit_pc \in {"loop", "yielded"}) => ~llm_accumulated'
          /\ Polls => (emit_pc' = "done" <=>
                          \/ Len(summaries) > initial_summary_count
                          \/ waited = MaxPolls - 1)
          /\ (Polls /\ emit_pc' = "polling") => waited' = waited + 1
          /\ YieldsFinal => /\ last_emit'.kind = "final"
                            /\ last_emit'.summaries = summaries']_vars

\* The emitter waits for the final summary, three polls have found none, and
\* now a summary more than at the start of the wait is stored: the next poll
\* ends the wait.
C17_SummaryArrivedWhilePolling ==
    /\ emit_pc = "polling"
    /\ llm_accumulated
    /\ waited = 3
    /\ initial_summary_count = 1
    /\ Len(summaries) = 2

\* -------------------------------------------------------- configuration

\* The feature flags of an argument namespace.  no_transcription is the flag
\* of the command line; a namespace without that attribute reads as FALSE
\* (getattr(args, "no_transcription", False)).
Args(no_transcription, transcription, diarization) ==
    [no_transcription |-> no_transcription, transcription |-> transcription,
     diarization |-> diarization]

\* _DEFAULT_CONFIG["features"]
DefaultArgs == Args(FALSE, TRUE, FALSE)

\* _validate_args(), the test of the feature combination: FALSE when it
\* raises ValueError.
ValidateArgs(args) == ~(args.no_transcription /\ ~args.diarization)

\* _optimize_args(): transcription is derived from the negative flag, which is
\* then removed.
OptimizeArgs(args) ==
    [args EXCEPT !.transcription = ~args.no_transcription, !.no_transcription = FALSE]

\* What a path that builds the configuration returns: the arguments, or the
\* error it raised.
Built(args) == [error |-> FALSE, args |-> args]
Rejected == [error |-> TRUE, args |-> DefaultArgs]

\* parse_args(argv) for a command line with or without --no-transcription and
\* --diarization.
ParseArgs(no_transcription, diarization) ==
    LET args == Args(no_transcription, TRUE, diarization)
    IN IF ValidateArgs(args) THEN Built(OptimizeArgs(args)) ELSE Rejected

\* parse_args_safe(argv): the ValueError of parse_args() is caught and the
\* defaults are returned.
ParseArgsSafe(no_transcription, diarization) ==
    LET parsed == ParseArgs(no_transcription, diarization)
    IN IF parsed.error THEN Built(OptimizeArgs(DefaultArgs)) ELSE parsed

\* AudioInsight(transcription=..., diarization=...): the defaults are updated
\* with the keyword arguments and optimized, then the keyword arguments are set
\* again; _validate_args() is not called.
FromKwargs(transcription, diarization) ==
    LET merged == Args(FALSE, transcription, diarization)
        optimized == OptimizeArgs(merged)
    IN Built([optimized EXCEPT !.transcription = transcription,
                               !.diarization = diarization])

\* Every configuration a path can hand to a session; a path that raises
\* hands over none, and no session begins.
BuiltConfigs ==
    {c \in UNION {{ParseArgs(n, d), ParseArgsSafe(n, d), FromKwargs(~n, d)} :
                     n \in BOOLEAN, d \in BOOLEAN} : ~c.error}

MaxConfigEmits == 2

\* A session of a configuration built on one of the paths, without summarizer;
\* while it runs the flags may be reconfigured (not for ever once the stop
\* signal is in: every change of the diarization flag changes the speaker of
\* the line and makes the emitter yield again).
ConfigInit ==
    /\ NoStream
    /\ \E c \in BuiltConfigs :
          Config(c.args.transcription, c.args.diarization, FALSE, TRUE)
    /\ DecoderInit
    /\ CoordInit

ConfigNext ==
    \/ \E m \in Messages : n_pushes < MaxPushes /\ ProcessAudio(m)
    \/ PushWriteDone
    \/ PushFlushDone
    \/ ReaderStartRead
    \/ ReaderRead(HalfSecondChunks)
    \/ TranscriptionStep(EngineLean)
    \/ EmitterIterate
    \/ EmitterResume
    \/ \E transcription \in BOOLEAN, diarization \in BOOLEAN :
          emits_after_stop < MaxConfigEmits /\ Reconfigure(transcription, diarization)

ConfigSpec == ConfigInit /\ [][ConfigNext]_vars

\* C18: no session ever runs with a configuration in which transcription and
\* diarization are both disabled: every path that builds such a configuration
\* raises, and no change of the configuration leads to one.
C18_NeverBothDisabled == args_transcription \/ args_diarization

\* A session whose configuration has both features disabled: its reader
\* has read decoder output and had no stage to hand the frame to.
C18_SessionWithoutStages ==
    /\ ~args_transcription
    /\ ~args_diarization
    /\ transcription_pc = "none"
    /\ diarization_pc = "none"
    /\ last_push.did = "written"
    /\ reader_pc = "loop"
    /\ transcription_queue = <<>>

\* ---------------------------------------------------------- idle restart

\* A session of the default configuration that nobody stops and whose decoder
\* does not end by itself: audio is pushed, and the reader and the watchdog
\* restart the decoder when they find it idle.
IdleInit ==
    /\ NoStream
    /\ Config(TRUE, FALSE, FALSE, TRUE)
    /\ DecoderInit
    /\ CoordInit

IdleNext ==
    \/ n_pushes < MaxPushes /\ ProcessAudio(AudioMessage)
    \/ PushWriteDone
    \/ PushFlushDone
    \/ WatchdogRestart
    \/ ReaderIdleRestart
    \/ ReaderStartRead
    \/ ReaderRead(AnyChunk)
    \/ \E c \in Callers : RestartTerminated(c)
    \/ \E c \in Callers : RestartAttempt(c)
    \/ TranscriptionStep(EngineQuiet)

IdleSpec == IdleInit /\ [][IdleNext]_vars

\* A restart has brought up a new decoder, which the handle names and which
\* runs with its stdin open, and no restart is under way.
Restarted ==
    /\ n_spawned > 1
    /\ ffmpeg_process = n_spawned
    /\ proc_alive[ffmpeg_process]
    /\ ~proc_stdin_closed[ffmpeg_process]
    /\ \A c \in Callers : rpc[c] = "idle"

\* C19: when an idle decoder has been restarted the pipeline resumes: the
\* reader task is still running and has put no sentinel on the stage queue.
C19_ReaderSurvivesRestart ==
    (Restarted /\ ~is_stopping) =>
        /\ reader_pc # "done"
        /\ \A i \in 1..Len(transcription_queue) : transcription_queue[i] # SENTINEL

\* Nobody has stopped the session.  The one restart there was has brought up
\* decoder 2, and audio pushed after it was written to decoder 2,
\* whose output waits unread: the reader has ended and the sentinel is on the
\* transcription queue.
C19_ReaderEndedByRestart ==
    /\ ~stop_pushed
    /\ ~is_stopping
    /\ restarts_begun = 1
    /\ Restarted
    /\ ffmpeg_process = 2
    /\ last_push.did = "written"
    /\ proc_out[2] > 0
    /\ reader_pc = "done"
    /\ transcription_queue = <<SENTINEL>>

\* ------------------------------------------------------ push outcomes

\* The restart_ffmpeg() call of a push has returned.
PushRestartOver == push_pc = "restarting" /\ push_pc' # "restarting"

\* C20: a process_audio_chunk() call makes at most one restart, after which
\* it returns, and no call ends with an exception, whether the pipe is broken,
\* the input closed, the process missing or dead, or the write or flush times
\* out.
C20_OneRestartAndNoException ==
    /\ [](last_push.did # "raised")
    /\ [][PushRestartOver => push_pc' = "idle"]_vars

\* An audio push has ended with the ValueError of a stdin that the restart of
\* another task closed while the push awaited its write or flush; nobody has
\* stopped the session.
C20_PushRaised ==
    /\ last_push = Pushed(AudioMessage, "raised")
    /\ push_pc = "idle"
    /\ ~stop_pushed
    /\ ~is_stopping
    /\ restarts_begun > 0

\* ---------------------------------------------------------- broken pipe

\* A step in which the awaited write or flush of a push fails with one of the
\* exceptions the handler catches: the pipe is broken, the process is gone.
BrokenPipeStep ==
    /\ push_pc \in {"writing", "flushing"}
    /\ last_push'.did = "gave_up"

\* C21: a push whose write fails with a broken pipe begins one restart of the
\* decoder before it returns.
C21_BrokenPipeRestarts ==
    [][BrokenPipeStep => /\ restarts_begun' = restarts_begun + 1
                         /\ push_pc' = "restarting"]_vars

\* C21, as the code has it: a push whose write or flush fails with a broken
\* pipe begins no restart; it leaves the decoder as it is and returns.
C21_BrokenPipeOnlyReturns ==
    [][BrokenPipeStep => /\ restarts_begun' = restarts_begun
                         /\ rpc' = rpc
                         /\ ffmpeg_process' = ffmpeg_process
                         /\ proc_alive' = proc_alive
                         /\ push_pc' = "idle"]_vars

\* An audio push has ended on a broken pipe: the decoder it wrote to has
\* exited, it is still the one the handle names, and no restart has begun.
C21_GaveUpOnDeadDecoder ==
    /\ last_push = Pushed(AudioMessage, "gave_up")
    /\ push_pc = "idle"
    /\ ffmpeg_process = 1
    /\ ~proc_alive[1]
    /\ restarts_begun = 0

\* ------------------------------------------------------ restart attempts

\* A step in which the restart call of caller c begins.
RestartCalled(c) ==
    /\ rpc[c] = "idle"
    /\ rpc'[c] # "idle"

\* A step in which the restart call of caller c makes one start attempt.
AttemptStep(c) ==
    /\ rpc[c] \in {"sleeping", "backoff"}
    /\ rpc'[c] # rpc[c] \/ r_attempt'[c] # r_attempt[c]

AttemptStarted(c) == AttemptStep(c) /\ n_spawned' = n_spawned + 1

AttemptFailed(c) == AttemptStep(c) /\ n_spawned' = n_spawned

\* What a caller does when its restart call has returned: a push returns
\* without an exception, the reader goes on to its next read.
CallerGoesOn(c) ==
    /\ c = "push" => push_pc' = "idle" /\ last_push' = last_push
    /\ c = "reader" => reader_pc' # "restarting"

MaxCleanups == 2

\* FFmpegProcessor.cleanup(), one whole call: the function is synchronous and
\* catches every exception of the teardown.
FFmpegCleanup ==
    /\ cleanups < MaxCleanups
    /\ \E killed \in BOOLEAN : Cleanup(killed)
    /\ cleanups' = cleanups + 1
    /\ UNCHANGED <<n_spawned, restartVars, reader_pc, reader_proc, push_pc,
                   push_proc, n_pushes, last_push, stop_pushed, reset_pc,
                   is_stopping, queueVars, coordVars>>
    /\ UNCHANGED streamVars

\* A decoder session in which the decoder is cleaned up, up to twice, at any
\* moment.
CleanupNext ==
    \/ DecoderNext
    \/ FFmpegCleanup

CleanupSpec == Init /\ [][CleanupNext]_vars

\* A step in which a cleanup() call is made.
CleanupStep == cleanups' = cleanups + 1

\* What one cleanup() call leaves: no decoder process, empty PCM and
\* diarization buffers.
Cleaned ==
    /\ ffmpeg_process = NoProc
    /\ pcm_buffer_length = 0
    /\ diarization_buffer_size = 0

\* C23: every cleanup() call leaves no decoder process and empty buffers, and
\* a call made in the state a cleanup() call leaves changes nothing: neither
\* the handle, the pipes and the processes nor the buffers (and nothing of
\* the tasks around it).
C23_CleanupIsIdempotent ==
    [][CleanupStep =>
          /\ Cleaned'
          /\ Cleaned =>
               /\ decoderVars' = decoderVars
               /\ bufferVars' = bufferVars
               /\ restartVars' = restartVars
               /\ <<reader_pc, reader_proc, push_pc, last_push>>' =
                     <<reader_pc, reader_proc, push_pc, last_push>>]_vars

\* cleanup() has been called twice in a session without a restart: the first
\* call closed the pipes of decoder 1 and cleared the handle, which nothing
\* has set again before the second call.
C23_CleanedUpTwice ==
    /\ cleanups = 2
    /\ restarts_begun = 0
    /\ Cleaned
    /\ proc_stdin_closed[1]
    /\ proc_stdout_closed[1]
    /\ ~proc_alive[1]

\* -------------------------------------------------------- final snapshot

\* Sessions with a summarizer in each configuration _validate_args() lets
\* through, from the first push to the end of the stream: pushes, reader, both
\* stages and the emitter run, the summarizer answers the forced inference or
\* does not, and force_reset() may be called; after a reset only the emitter,
\* which force_reset() does not end, goes on.
FinalInit ==
    /\ NoStream
    /\ \E transcription \in BOOLEAN, diarization \in BOOLEAN :
         /\ transcription \/ diarization
         /\ Config(transcription, diarization, TRUE, TRUE)
    /\ DecoderInit
    /\ CoordInit

FinalNext ==
    \/ /\ reset_pc # "reset"
       /\ \/ \E m \in Messages : n_pushes < MaxPushes /\ ProcessAudio(m)
          \/ PushWriteDone
          \/ PushFlushDone
          \/ ReaderStartRead
          \/ ReaderRead(HalfSecondChunks)
          \/ TranscriptionStep(EngineLean)
          \/ DiarizationStep
          \/ DiarizationDone
          \/ ForceResetBegin
    \/ ForceResetDone
    \/ EmitterIterate
    \/ EmitterResume
    \/ EmitterForceInference
    \/ EmitterPoll

FinalSpec == FinalInit /\ [][FinalNext]_vars

\* The stage tasks of the enabled stages are done (or there are none).
EnabledStagesDone ==
    /\ args_transcription => transcription_pc \in {"none", "done", "cancelled"}
    /\ args_diarization => diarization_pc \in {"none", "done", "cancelled"}

\* A step in which the termination check of the emitter succeeds.
DecidesFinal ==
    /\ emit_pc \in {"loop", "yielded"}
    /\ emit_pc' \in {"forcing", "done"}

\* C24, as stated: the final snapshot is yielded only in a state in which
\* is_stopping is true and the task of every enabled stage is done.
C24_FinalOnlyWhenStopping ==
    [][YieldsFinal => is_stopping /\ EnabledStagesDone]_vars

\* C24, as the code has it: the emitter decides to end only in a state in
\* which is_stopping is true and the task of every enabled stage is done, and
\* the final snapshot is yielded in such a state unless force_reset() has
\* returned since the decision; the final snapshot has both remaining times 0
\* and nothing is yielded after it.
C24_FinalDecidedWhenStopping ==
    /\ [](last_emit.kind = "final" <=> emit_pc = "done")
    /\ [][/\ DecidesFinal => is_stopping /\ EnabledStagesDone
          /\ (YieldsFinal /\ reset_pc # "reset") => is_stopping /\ EnabledStagesDone
          /\ YieldsFinal => /\ last_emit'.kind = "final"
                            /\ last_emit'.remaining_time_transcription = 0
                            /\ last_emit'.remaining_time_diarization = 0
          /\ emit_pc = "done" => /\ emit_pc' = "done"
                                 /\ last_emit' = last_emit
                                 /\ emits_after_stop' = emits_after_stop]_vars

\* The stream has ended with a final snapshot that was yielded after
\* force_reset() had returned: is_stopping is false.
C24_FinalAfterReset ==
    /\ emit_pc = "done"
    /\ last_emit.kind = "final"
    /\ reset_pc = "reset"
    /\ ~is_stopping

\* ---------------------------------------------------------- cancellation

\* AudioProcessor.cleanup(), from its entry to the awaited gather(): every
\* task of all_tasks_for_cleanup that is not done is cancelled.  The stage
\* coroutines catch Exception only, and CancelledError is none: a cancelled
\* task ends at its suspension point, with the exception.
AudioCleanupBegin ==
    /\ LoopFree
    /\ push_pc = "idle"
    /\ reset_pc = "idle"
    /\ reset_pc' = "cleaning"
    /\ reader_pc' = Cancel(reader_pc)
    /\ reader_proc' = NoProc
    /\ transcription_pc' = Cancel(transcription_pc)
    /\ diarization_pc' = Cancel(diarization_pc)
    /\ rpc' = [c \in Callers |-> IF c = "push" THEN rpc[c] ELSE "cancelled"]
    /\ r_proc' = [c \in Callers |-> IF c = "push" THEN r_proc[c] ELSE NoProc]
    /\ UNCHANGED <<is_stopping, decoderVars, r_attempt, r_wait, restarts_begun,
                   bufferVars, push_pc, push_proc, n_pushes, last_push, stop_pushed,
                   cleanups, queueVars, cfgVars, tokenVars, summaryVars, parseVars,
                   clockVars, llm_accumulated, emitVars, commits_after_stop>>
    /\ UNCHANGED streamVars

\* AudioProcessor.cleanup(), from the return of gather() to its own return:
\* the decoder is cleaned up.
AudioCleanupDone ==
    /\ LoopFree
    /\ reset_pc = "cleaning"
    /\ reset_pc' = "cleaned"
    /\ \E killed \in BOOLEAN : Cleanup(killed)
    /\ cleanups' = cleanups + 1
    /\ UNCHANGED <<is_stopping, n_spawned, restartVars, reader_pc, reader_proc,
                   push_pc, push_proc, n_pushes, last_push, stop_pushed, queueVars,
                   coordVars>>
    /\ UNCHANGED streamVars

\* Sessions without a summarizer in each configuration _validate_args() lets
\* through, in which cleanup() is called at any moment between two pushes.
CancelNext ==
    \/ EmitNext
    \/ AudioCleanupBegin
    \/ AudioCleanupDone

CancelSpec == EmitInit /\ [][CancelNext]_vars

\* A step in which the running task of a stage is cancelled.
TranscriptionCancelled ==
    /\ transcription_pc = "run"
    /\ transcription_pc' \notin {"run", "busy", "done"}
DiarizationCancelled ==
    /\ diarization_pc \in {"run", "diarizing"}
    /\ diarization_pc' \notin {"run", "diarizing", "done"}

\* C25: a stage task that is cancelled acknowledges the item it holds, so
\* that its queue counts as unfinished only the items still in it, and ends
\* as a task that returned.
C25_CancelledStageAcknowledges ==
    [][/\ TranscriptionCancelled =>
            /\ transcription_pc' = "done"
            /\ transcription_unfinished' = Len(transcription_queue')
       /\ DiarizationCancelled =>
            /\ diarization_pc' = "done"
            /\ diarization_unfinished' = Len(diarization_queue')]_vars

\* The diarization task was cancelled while it awaited diarize() on a frame:
\* it ended with the CancelledError, and the frame it had taken is still
\* counted as unfinished.
C25_CancelledHoldingFrame ==
    /\ reset_pc = "cleaning"
    /\ diarization_pc = "cancelled"
    /\ diarization_unfinished = Len(diarization_queue) + 1

\* ------------------------------------------------------------- task_done

\* Steps of the stages: an item is taken from the queue; the diarization
\* stage is done with the frame it holds.
TranscriptionTakes ==
    /\ transcription_queue # <<>>
    /\ transcription_queue' = Tail(transcription_queue)
    /\ transcription_pc \in {"run", "busy"}
DiarizationTakes ==
    /\ diarization_queue # <<>>
    /\ diarization_queue' = Tail(diarization_queue)
    /\ diarization_pc = "run"
DiarizationFinishes == diarization_pc = "diarizing" /\ diarization_pc' = "run"

\* C26: each stage acknowledges every item it takes exactly once.  The
\* transcription stage, which handles an item in one go, acknowledges it in
\* the step that takes it, whether it is the sentinel, a frame the engine
\* handles or a frame on which the engine raises; the diarization stage
\* acknowledges the sentinel when it takes it and a frame when diarize() has
\* returned or raised.  No other step acknowledges anything: a stage whose
\* queue get ends in the cancellation acknowledges nothing, and no count
\* falls below the items in the queue.  After an exception on a frame the
\* stage goes on with its loop.
C26_TaskDoneOncePerItem ==
    /\ [](transcription_unfinished = Len(transcription_queue))
    /\ [](diarization_pc \in {"none", "run", "done"}
             => diarization_unfinished = Len(diarization_queue))
    /\ [](diarization_pc = "diarizing"
             => diarization_unfinished = Len(diarization_queue) + 1)
    /\ [](diarization_unfinished >= Len(diarization_queue))
    /\ [][/\ TranscriptionTakes =>
               /\ transcription_unfinished' = transcription_unfinished - 1
               /\ Head(transcription_queue) # SENTINEL
                     => transcription_pc' \in {"run", "busy"}
          /\ DiarizationTakes =>
               diarization_unfinished' =
                  IF Head(diarization_queue) = SENTINEL
                  THEN diarization_unfinished - 1 ELSE diarization_unfinished
          /\ DiarizationFinishes => diarization_unfinished' = diarization_unfinished - 1
          /\ transcription_pc = "run" /\ transcription_pc' = "cancelled"
                => transcription_unfinished' = transcription_unfinished
          /\ diarization_pc = "run" /\ diarization_pc' = "cancelled"
                => diarization_unfinished' = diarization_unfinished
          /\ ~(TranscriptionTakes \/ DiarizationTakes \/ DiarizationFinishes)
                => /\ transcription_unfinished' >= transcription_unfinished
                   /\ diarization_unfinished' >= diarization_unfinished]_vars

\* The transcription stage has acknowledged all it took and ended on its
\* sentinel; the diarization stage holds a frame it has not acknowledged yet
\* while the sentinel waits in its queue.
C26_StagesAcknowledged ==
    /\ transcription_pc = "done"
    /\ transcription_unfinished = 0
    /\ diarization_pc = "diarizing"
    /\ diarization_queue = <<SENTINEL>>
    /\ diarization_unfinished = 2

\* -------------------------------------------------------- end of stream

\* A step in which the transcription stage takes the sentinel.
SentinelStep ==
    /\ TranscriptionTakes
    /\ Head(transcription_queue) = SENTINEL

\* C27: the step in which the transcription stage takes the sentinel hands
\* the text gathered for the parser, if there is any, to a parser task and
\* leaves none gathered.
C27_SentinelFlushesAccumulator ==
    [][SentinelStep =>
          /\ ~accumulated_text_for_parser'
          /\ accumulated_text_for_parser => parse_tasks' = parse_tasks + 1]_vars

\* The stream has ended without a reset: the transcription stage has taken
\* its sentinel, the emitter has yielded the final snapshot with no
\* hypothesis pending, and the text gathered for the parser is still there,
\* handed to no parser task.
C27_AccumulatorLeftAtEnd ==
    /\ reset_pc = "idle"
    /\ transcription_pc = "done"
    /\ emit_pc = "done"
    /\ buffer_transcription = <<>>
    /\ accumulated_text_for_parser
    /\ parse_tasks = 0

\* -------------------------------------------------------- parser trigger

\* A step in which the transcription stage commits a token with text.
CommitsText ==
    /\ FrameStep
    /\ Len(tokens') > Len(tokens)
    /\ HasNonBlank(tokens'[Len(tokens')].text)

\* C28: in every configuration with transcription, the text of a frame's new
\* tokens goes to the parser: the step that commits it hands the gathered
\* text to a parser task (the trigger interval has passed) or keeps it
\* gathered for the next trigger.
C28_CommittedTextGoesToParser ==
    [][CommitsText => \/ parse_tasks' = parse_tasks + 1
                      \/ accumulated_text_for_parser']_vars

\* A session with transcription and a parser but no summarizer has ended:
\* a token with text was committed, and no text was ever gathered for the
\* parser or handed to it.
C28_ParserNeverFed ==
    /\ args_transcription
    /\ parser_enabled
    /\ ~llm_enabled
    /\ transcription_pc = "done"
    /\ \E i \in 1..Len(tokens) : HasNonBlank(tokens[i].text)
    /\ ~accumulated_text_for_parser
    /\ parse_tasks = 0
    /\ parses_in_flight = 0
    /\ n_parsed = 0

\* ------------------------------------------------------- parser failure

\* A session with transcription, a summarizer and a parser: pushes, reader
\* and transcription stage run, and the parser tasks the stage creates call
\* a parser that answers or raises.
HandoffNext ==
    \/ \E m \in Messages : n_pushes < MaxPushes /\ ProcessAudio(m)
    \/ PushWriteDone
    \/ PushFlushDone
    \/ ReaderStartRead
    \/ ReaderRead(HalfSecondChunks)
    \/ TranscriptionStep(EngineLean)
    \/ ParseTaskRun
    \/ ParseDone

HandoffSpec == ParseInit /\ [][HandoffNext]_vars

\* A step in which a parser invocation ends with an exception.
ParseFails ==
    /\ parses_in_flight' = parses_in_flight - 1
    /\ n_parsed' = n_parsed

\* C29: when a parser invocation fails, the text that was handed to it is
\* (again) in the accumulator of the stage, for the next trigger.
C29_FailedTextPreserved ==
    [][ParseFails => accumulated_text_for_parser']_vars

\* Committed text was handed to the parser, the one invocation failed, and
\* the text is nowhere: not gathered for the parser, not with the
\* summarizer, in no parsed transcript and in no invocation under way.
C29_HandedTextLost ==
    /\ transcription_pc = "done"
    /\ \E i \in 1..Len(tokens) : HasNonBlank(tokens[i].text)
    /\ ~accumulated_text_for_parser
    /\ ~llm_accumulated
    /\ parse_tasks = 0
    /\ parses_in_flight = 0
    /\ n_parsed = 0

\* --------------------------------------------------- snapshot coherence

\* A step in which the emitter yields a snapshot.
Yields ==
    /\ emit_pc' # emit_pc
    /\ emit_pc' \in {"yielded", "done"}

\* The lines of a pass of the loop over the given state.
LinesOfPass(toks, separator, eas) ==
    LET raw == FormatBySpeaker(toks, separator, eas)
    IN ConvertLines(IF raw = <<>>
                    THEN <<Line(0, <<>>, FormatTime(0),
                                FormatTime(IF toks # <<>> THEN toks[Len(toks)].end
                                           ELSE 0), 0)>>
                    ELSE raw)

OneRead(reads) ==
    /\ reads.buffer_transcription = reads.tokens
    /\ reads.buffer_diarization = reads.tokens
    /\ reads.end_attributed_speaker = reads.tokens

Access(field, mode, section) == [field |-> field, mode |-> mode, section |-> section]

\* process_audio(): the stop flag is tested at entry and set by the stop
\* signal, both without the lock.
ProcessAudioAccesses ==
    {Access("is_stopping", "read", 0), Access("is_stopping", "write", 0)}

\* DiarizationProcessor.process(), a frame whose diarize() has returned:
\* get_current_state() reads under the lock, assign_speakers_to_tokens()
\* writes the speakers of the shared token objects outside it, and
\* update_diarization() takes the lock a second time for the watermark.
DiarizationAccesses ==
    {Access("tokens", "read", 1), Access("end_attributed_speaker", "read", 1),
     Access("speaker", "write", 0), Access("end_attributed_speaker", "write", 2)}

\* results_formatter(), a pass that yields: get_current_state() reads under
\* the lock; the formatter reads the speakers of the shared token objects,
\* and the pass reads _has_summaries and reads and writes
\* last_response_content and then reads is_stopping, all outside it.
ResultsFormatterAccesses ==
    {Access(f, "read", 1) :
        f \in {"tokens", "buffer_transcription", "buffer_diarization", "end_buffer",
               "end_attributed_speaker", "sep"}}
    \cup {Access("speaker", "read", 0), Access("has_summaries", "read", 0),
          Access("last_response_content", "read", 0),
          Access("last_response_content", "write", 0),
          Access("is_stopping", "read", 0)}

\* All accesses are made in the one critical section of the operation.
InOneSection(accesses) == \A a \in accesses : a.section = 1

\* C31: every operation on the shared state reads and writes its fields
\* while holding the state lock, in one critical section: a process_audio()
\* call, a frame of the diarization stage and a pass of the emitter that
\* yields.
C31_AccessesInOneSection ==
    [][/\ PushStep => InOneSection(ProcessAudioAccesses)
       /\ DiarizationFinishes => InOneSection(DiarizationAccesses)
       /\ Yields => InOneSection(ResultsFormatterAccesses)]_vars

\* The writes made without the lock have taken effect: the stop signal has
\* set is_stopping, the diarization stage has given a token its speaker, and
\* the emitter has recorded the fingerprint of a snapshot it yielded.
C31_WrittenWithoutLock ==
    /\ is_stopping
    /\ last_push.did = "stop"
    /\ \E i \in 1..Len(tokens) : tokens[i].speaker \in Speakers
    /\ emit_pc = "loop"
    /\ last_emit # NoEmit
    /\ last_response_content = FingerprintOf(last_emit)

\* --------------------------------------------------- full transcription

\* C32: full_transcription is the texts of the committed tokens, in order,
\* joined with the separator of the engine.
C32_FullTranscriptionIsJoin ==
    full_transcription = Join(TokenTexts(EngineTokens(tokens)), asr_sep)

\* Two tokens were committed in two batches by an engine that separates with
\* a space, and full_transcription has their texts with nothing in between.
C32_BatchesRunTogether ==
    /\ asr_sep = Sep
    /\ Len(tokens) = 2
    /\ EngineTokens(tokens) = tokens
    /\ full_transcription = tokens[1].text \o tokens[2].text
    /\ full_transcription # Join(TokenTexts(tokens), asr_sep)

\* ------------------------------------------------- unattributed tokens

\* An engine that commits ordered batches of tokens that begin and end at
\* any time, and may leave a hypothesis.
EngineTimed == {EngineResult(b, h, 0) : b \in Batches(tokens), h \in LeanTexts}

\* Sessions with diarization, with or without transcription and without a
\* summarizer: pushes, reader, both stages and the emitter run; nothing
\* restarts.
SpeakerInit ==
    /\ NoStream
    /\ \E transcription \in BOOLEAN : Config(transcription, TRUE, FALSE, TRUE)
    /\ DecoderInit
    /\ CoordInit

SpeakerNext ==
    \/ \E m \in Messages : n_pushes < MaxPushes /\ ProcessAudio(m)
    \/ PushWriteDone
    \/ PushFlushDone
    \/ ReaderStartRead
    \/ ReaderRead(AnyChunk)
    \/ TranscriptionStep(EngineTimed)
    \/ DiarizationStep
    \/ DiarizationDone
    \/ EmitterIterate
    \/ EmitterResume

SpeakerSpec == SpeakerInit /\ [][SpeakerNext]_vars

\* The speaker under which the i-th token is shown: its own when it has one;
\* 0 when it has none and ends at or after the watermark; otherwise the
\* speaker under which the token before it is shown, and 0 for the first.
RECURSIVE ShownSpeaker(_, _, _)
ShownSpeaker(toks, i, eas) ==
    IF toks[i].speaker # -1 THEN toks[i].speaker
    ELSE IF toks[i].end >= eas THEN 0
    ELSE IF i = 1 THEN 0
    ELSE ShownSpeaker(toks, i - 1, eas)

\* A sequence without the repetitions of an element next to itself.
RECURSIVE Collapse(_)
Collapse(s) ==
    IF Len(s) <= 1 THEN s
    ELSE IF s[1] = s[2] THEN Collapse(Tail(s))
    ELSE <<s[1]>> \o Collapse(Tail(s))

\* The speakers of the lines that show the tokens.
ShownSpeakers(toks, eas) == Collapse([i \in 1..Len(toks) |-> ShownSpeaker(toks, i, eas)])

LineSpeakers(lines) == [i \in 1..Len(lines) |-> lines[i].speaker]

\* The texts of the tokens without a speaker that end at or after the
\* watermark, joined, and followed by the separator when there is a
\* hypothesis.
UnattributedTexts(toks, eas) ==
    TokenTexts(SelectSeq(toks, LAMBDA t : t.speaker = -1 /\ t.end >= eas))
UnattributedBuffer(toks, eas, separator, bt) ==
    Join(UnattributedTexts(toks, eas), separator)
    \o (IF bt # <<>> THEN separator ELSE <<>>)

\* The lines of a snapshot show the tokens of the state under the speakers
\* of the rule.
ShowsByRule(e, toks, eas) ==
    /\ toks # <<>> => LineSpeakers(e.lines) = ShownSpeakers(toks, eas)
    /\ \A i \in 1..Len(e.lines) : e.lines[i].speaker # -1

\* The diarization buffer of a snapshot holds the unattributed texts.
HoldsUnattributed(e, toks, eas, separator, bt) ==
    UnattributedTexts(toks, eas) # <<>> =>
        e.buffer_diarization = S2HK(UnattributedBuffer(toks, eas, separator, bt))

\* The diarization buffer of a snapshot contains the text of every token
\* without a speaker that ends at or after the watermark.
ContainsUnattributed(e, toks, eas) ==
    \A i \in 1..Len(toks) :
        (toks[i].speaker = -1 /\ toks[i].end >= eas) =>
            Contains(S2HK(toks[i].text), e.buffer_diarization)

\* C33, as stated: with diarization enabled, every snapshot shows the tokens
\* under the speakers of the rule, no line has speaker -1, and the text of
\* every token without a speaker that ends at or after the watermark is
\* contained in its buffer_diarization.
C33_UnattributedShownAndBuffered ==
    [][(Yields /\ args_diarization) =>
          /\ ShowsByRule(last_emit', tokens', end_attributed_speaker')
          /\ ContainsUnattributed(last_emit', tokens', end_attributed_speaker')]_vars

\* C33, as the code has it: every snapshot, the final one included, shows
\* the tokens under the speakers of the rule and has no line of speaker -1;
\* the snapshot of a pass of the loop holds the unattributed texts in its
\* buffer_diarization, while the final snapshot has the buffer_diarization
\* that is stored.
C33_ShownByRuleBufferedByPass ==
    [][(Yields /\ args_diarization) =>
          /\ ShowsByRule(last_emit', tokens', end_attributed_speaker')
          /\ last_emit'.kind = "partial" =>
                HoldsUnattributed(last_emit', tokens', end_attributed_speaker', sep',
                                  buffer_transcription')
          /\ last_emit'.kind = "final" =>
                last_emit'.buffer_diarization = S2HK(buffer_diarization')]_vars

\* A pass has yielded one line for two tokens: the first has the speaker the
\* diarizer gave it, the second has none and ends before the watermark, and
\* both are shown under the speaker of the first.
C33_InheritsSpeakerOfLine ==
    /\ emit_pc = "yielded"
    /\ last_emit.kind = "partial"
    /\ Len(tokens) = 2
    /\ tokens[1].speaker \in Speakers
    /\ tokens[2].speaker = -1
    /\ tokens[2].end < end_attributed_speaker
    /\ LineSpeakers(last_emit.lines) = <<tokens[1].speaker>>
    /\ last_emit.lines[1].text = tokens[1].text \o sep \o tokens[2].text

\* ----------------------------------------------------- the last frame

\* C34: when the reader has ended, every byte it read from the decoder has
\* gone to the transcription queue: none is left in the PCM buffer.
C34_NothingLeftAtEndOfStream == reader_pc = "done" => pcm_buffer_length = 0

\* The decoder's output has been read to its end and the sentinel is on the
\* queue, while the PCM buffer still holds bytes, fewer than the smallest
\* frame: they were read and are delivered to no stage.
C34_RestOfStreamDropped ==
    /\ reader_pc = "done"
    /\ proc_out[1] = 0
    /\ transcription_queue # <<>>
    /\ transcription_queue[Len(transcription_queue)] = SENTINEL
    /\ pcm_buffer_length > 0
    /\ pcm_buffer_length < MinTranscriptionBuffer

\* ------------------------------------------------------- the sentinel

\* Sessions without a summarizer in each configuration _validate_args() lets
\* through: the decoder side runs with its restarts, and both stages take
\* what the reader queues.
SentinelInit == EmitInit

SentinelNext ==
    \/ DecoderNext
    \/ TranscriptionStep(EngineQuiet)
    \/ DiarizationStep
    \/ DiarizationDone

SentinelSpec == SentinelInit /\ [][SentinelNext]_vars

\* What a step has put on a queue: the items of the queue after the step
\* that follow those it held before.
Added(queue, after) ==
    IF Len(after) > Len(queue) /\ SubSeq(after, 1, Len(queue)) = queue
    THEN SubSeq(after, Len(queue) + 1, Len(after))
    ELSE <<>>

SentinelsIn(items) == Len(SelectSeq(items, LAMBDA item : item = SENTINEL))

\* What a step puts on the queue of a stage, given whether the stage is
\* enabled: one sentinel, as the last item, if the reader exits in the step
\* and the stage is enabled, and no sentinel otherwise; nothing at all once
\* the reader has exited.
PutsOneSentinel(enabled, queue, after) ==
    LET added == Added(queue, after)
        exits == reader_pc # "done" /\ reader_pc' = "done"
    IN /\ SentinelsIn(added) = IF exits /\ enabled THEN 1 ELSE 0
       /\ (exits /\ enabled) => added[Len(added)] = SENTINEL
       /\ reader_pc = "done" => added = <<>>

\* A stage ends only in a step that takes the sentinel from its queue.
EndsOnSentinel(pc, after, queue) ==
    (pc # "done" /\ after = "done") => (queue # <<>> /\ Head(queue) = SENTINEL)

\* C35: the reader puts one sentinel on the queue of each enabled stage in
\* the step in which it exits, as the last item, and no step puts a sentinel
\* otherwise; once the reader has exited it stays so and nothing more is put
\* on a queue; a stage ends only by taking the sentinel.
C35_OneSentinelAtExit ==
    [][/\ PutsOneSentinel(args_transcription /\ transcription_pc # "none",
                          transcription_queue, transcription_queue')
       /\ PutsOneSentinel(args_diarization /\ diarization_pc # "none",
                          diarization_queue, diarization_queue')
       /\ reader_pc = "done" => reader_pc' = "done"
       /\ EndsOnSentinel(transcription_pc, transcription_pc', transcription_queue)
       /\ EndsOnSentinel(diarization_pc, diarization_pc', diarization_queue)]_vars

\* Nobody has stopped the session: a restart closed the stream the reader
\* was reading, the reader exited on the exception, and both stages have
\* taken the sentinel and ended.
C35_StagesEndedAfterReaderFailed ==
    /\ ~is_stopping
    /\ restarts_begun > 0
    /\ reader_pc = "done"
    /\ transcription_pc = "done"
    /\ diarization_pc = "done"
    /\ transcription_queue = <<>>
    /\ diarization_queue = <<>>

\* -------------------------------------------------- overlapping restarts

\* The callers whose restart_ffmpeg() call is under way, and the decoder
\* processes that were started and have not exited.
Restarting == {c \in Callers : rpc[c] # "idle"}
LiveDecoders == {p \in Procs : p <= n_spawned /\ proc_alive[p]}

\* C36: at most one restart_ffmpeg() call is under way and at most one
\* decoder process is alive.
C36_OneRestartOneDecoder ==
    /\ Cardinality(Restarting) <= 1
    /\ Cardinality(LiveDecoders) <= 1

\* Two restart_ffmpeg() calls ran side by side and both have returned: each
\* started a decoder, the handle names the second, and the first is alive
\* with nothing left that refers to it.
C36_DecoderLeftBehind ==
    /\ Restarting = {}
    /\ restarts_begun = 2
    /\ Cardinality(LiveDecoders) = 2
    /\ ffmpeg_process \in LiveDecoders
    /\ \E p \in LiveDecoders : p # ffmpeg_process /\ proc_stdout_closed[p]

\* --------------------------------------------------------- the watermark

\* C37: no step lowers end_attributed_speaker but a step in which the
\* diarization stage stores a watermark that the diarizer returned below the
\* one it was passed; the write-back of the emitter, which stores the
\* watermark its pass read, never lowers it.
C37_WatermarkNeverLowered ==
    [][~DiarizationFinishes => end_attributed_speaker' >= end_attributed_speaker]_vars

\* The diarizer has raised the watermark and given a token its speaker, a
\* token without a speaker has followed, and a pass of the emitter has
\* written the undiarized text back together with the watermark it read:
\* the watermark is the raised one.
C37_WrittenBackUnchanged ==
    /\ emit_pc = "yielded"
    /\ end_attributed_speaker > 0
    /\ \E i \in 1..Len(tokens) : tokens[i].speaker \in Speakers
    /\ \E i \in 1..Len(tokens) :
          /\ tokens[i].speaker = -1
          /\ tokens[i].end >= end_attributed_speaker
          /\ tokens[i].text # <<>>
    /\ buffer_diarization # <<>>
    /\ last_emit.buffer_diarization = S2HK(buffer_diarization)

\* ------------------------------------------------------------- reset()

\* AudioProcessor.reset(): under the lock the tokens, both buffers, end_buffer,
\* the watermark, full_transcription, last_response_content and the parsed
\* transcripts are cleared and beg_loop is set to the current time.  No
\* statement of it assigns summaries, _has_summaries or sep, and the tasks
\* of the session run on.
Reset ==
    /\ LoopFree
    /\ tokens' = <<>>
    /\ buffer_transcription' = <<>>
    /\ buffer_diarization' = <<>>
    /\ end_buffer' = 0
    /\ end_attributed_speaker' = 0
    /\ full_transcription' = <<>>
    /\ last_response_content' = <<>>
    /\ beg_loop' = now
    /\ parsed_transcripts' = <<>>
    /\ last_parsed_transcript' = 0
    /\ UNCHANGED <<is_stopping, decoderVars, restartVars, readerVars, pushVars, stageVars,
                   diarVars, cfgVars, tp_full_transcription, sep, summaryVars,
                   parser_enabled, accumulated_text_for_parser, parse_tasks,
                   parses_in_flight, n_parsed, now, llm_accumulated, emit_pc,
                   response_content, waited, initial_summary_count, last_emit,
                   last_emit_reads, emits_after_stop, commits_after_stop>>
    /\ UNCHANGED streamVars

MaxClearCallbacks == 1
MaxClearEmits == 1

\* A session with transcription, a summarizer and a parser in which reset()
\* is called at any moment: pushes, reader, stage, parser, summarizer and
\* emitter run before and after.  (Each reset() makes the emitter yield
\* anew; the calls end when MaxClearEmits snapshots followed the stop
\* signal.)
ClearNext ==
    \/ HandoffNext
    \/ \E summary \in SummaryTexts, n \in TextLengths :
          n_callbacks < MaxClearCallbacks /\ SummaryCallback(summary, n)
    \/ EmitterIterate
    \/ EmitterResume
    \/ emits_after_stop < MaxClearEmits /\ Reset

ClearSpec == ParseInit /\ [][ClearNext]_vars

\* C38: when reset() returns, the state is that of a new AudioProcessor:
\* tokens, both buffers, end_buffer, the watermark, full_transcription, the
\* fingerprint emitted last, the parsed transcripts and the summaries.
C38_ResetRestoresInitialValues ==
    [][Reset =>
         /\ tokens' = <<>>
         /\ buffer_transcription' = <<>>
         /\ buffer_diarization' = <<>>
         /\ end_buffer' = 0
         /\ end_attributed_speaker' = 0
         /\ full_transcription' = <<>>
         /\ last_response_content' = <<>>
         /\ parsed_transcripts' = <<>>
         /\ last_parsed_transcript' = 0
         /\ summaries' = <<>>]_vars

\* reset() has returned after a session that committed text, stored a parsed
\* transcript and received a summary: tokens, transcription and parsed
\* transcripts are cleared, and the summary is still there.
C38_SummariesSurviveReset ==
    /\ tp_full_transcription # <<>>
    /\ n_parsed > 0
    /\ tokens = <<>>
    /\ full_transcription = <<>>
    /\ parsed_transcripts = <<>>
    /\ last_parsed_transcript = 0
    /\ last_response_content = <<>>
    /\ summaries # <<>>
    /\ has_summaries

\* -------------------------------------------------- the next session

\* create_tasks() after force_reset(): a new FFmpegProcessor starts a
\* decoder, the processors of the stages in args are created anew with new
\* queues, stage tasks, reader and watchdog are created, and the consumer
\* gets a new results_formatter().  The summarizer is started if there is
\* one; no statement creates one.
CreateTasks ==
    /\ LoopFree
    /\ reset_pc = "reset"
    /\ push_pc = "idle"
    /\ n_spawned + 1 \in Procs
    /\ reset_pc' = "idle"
    /\ n_spawned' = n_spawned + 1
    /\ ffmpeg_process' = n_spawned + 1
    /\ rpc' = [c \in Callers |-> "idle"]
    /\ r_attempt' = [c \in Callers |-> 0]
    /\ r_wait' = [c \in Callers |-> 0]
    /\ r_proc' = [c \in Callers |-> NoProc]
    /\ reader_pc' = "start"
    /\ reader_proc' = NoProc
    /\ transcription_queue' = <<>>
    /\ diarization_queue' = <<>>
    /\ transcription_unfinished' = 0
    /\ diarization_unfinished' = 0
    /\ transcription_pc' = IF args_transcription THEN "run" ELSE "none"
    /\ diarization_pc' = IF args_diarization THEN "run" ELSE "none"
    /\ emit_pc' = "loop"
    /\ response_content' = <<>>
    /\ waited' = 0
    /\ initial_summary_count' = 0
    /\ last_emit' = NoEmit
    /\ last_emit_reads' = NoReads
    /\ emits_after_stop' = 0
    /\ commits_after_stop' = 0
    /\ UNCHANGED <<is_stopping, proc_stdin_closed, proc_stdout_closed, proc_alive,
                   proc_out, restarts_begun, bufferVars, push_pc, push_proc, n_pushes,
                   last_push, stop_pushed, cleanups, cfgVars, tokenVars, summaryVars,
                   parseVars, clockVars, llm_accumulated, last_response_content>>
    /\ UNCHANGED streamVars

MaxRenewCallbacks == 1

\* A session with transcription, a summarizer and a parser, force_reset()
\* and the sessions that create_tasks() starts after it.
RenewNext ==
    \/ /\ reset_pc # "reset"
       /\ \/ \E m \in Messages : n_pushes < MaxPushes /\ ProcessAudio(m)
          \/ PushWriteDone
          \/ PushFlushDone
          \/ ReaderStartRead
          \/ ReaderRead(HalfSecondChunks)
          \/ TranscriptionStep(EngineLean)
          \/ \E summary \in SummaryTexts, n \in TextLengths :
                n_callbacks < MaxRenewCallbacks /\ SummaryCallback(summary, n)
    \/ ForceResetBegin
    \/ ForceResetDone
    \/ CreateTasks

RenewSpec == ParseInit /\ [][RenewNext]_vars

\* C39: the session that create_tasks() starts after force_reset() has the
\* collaborators of the first: the transcription stage, the parser, and the
\* summarizer the coordinator was constructed with.
C39_SameCollaboratorsAfterReset ==
    [][CreateTasks =>
         /\ transcription_pc' = "run"
         /\ parser_enabled'
         /\ llm_enabled']_vars

\* In the session after force_reset() the stage has committed text, with the
\* parser still there and no summarizer: no text is gathered for it and no
\* summary can come.
C39_SessionWithoutSummarizer ==
    /\ reset_pc = "idle"
    /\ n_spawned = 2
    /\ ffmpeg_process = 2
    /\ \E i \in 1..Len(tokens) : HasNonBlank(tokens[i].text)
    /\ parser_enabled
    /\ ~llm_enabled
    /\ ~llm_accumulated
    /\ ~accumulated_text_for_parser
    /\ ~ENABLED (\E summary \in SummaryTexts, n \in TextLengths : SummaryCallback(summary, n))

\* ---------------------------------------------------- the file streamer

\* stream_chunks_realtime(chunks, chunk_interval, duration, process_func,
\* progress_callback) of the server: it gives the chunks of a decoded file to
\* process_func at twice the speed of the recording, and b"" after them.

MaxChunks == 3

\* The chunks of a file: read_audio_chunks() stops at the first empty read, so
\* no chunk of its list is empty.
FileChunks == {"a", "b"}

RECURSIVE ListsUpTo(_, _)
ListsUpTo(values, n) ==
    IF n = 0 THEN {<<>>}
    ELSE LET shorter == ListsUpTo(values, n - 1)
         IN  shorter \cup {Append(l, v) : l \in {x \in shorter : Len(x) = n - 1},
                                          v \in values}

ChunkLists == ListsUpTo(FileChunks, MaxChunks)

\* chunk_interval in tenths of a second: calculate_streaming_params() gives
\* CHUNK_SIZE / bytes_per_second, the function itself provides for a value
\* that is not positive.
ChunkIntervals == {0, 5, 10, 25}

\* The 2.0 seconds between two progress reports.
ProgressSeconds == 20

\* progress_log_interval: max(1, int(2.0 / chunk_interval)) for a positive
\* interval, 1 otherwise.
ProgressLogInterval(interval) ==
    IF interval > 0
    THEN IF ProgressSeconds \div interval > 1 THEN ProgressSeconds \div interval ELSE 1
    ELSE 1

\* What an awaited process_func or a called progress_callback can do.
CallOutcomes == {"returns", "raises"}

\* The head of the function, up to its loop: optimized_chunk_interval is
\* half the interval, and the log line divides 1 by it.
StreamBegin ==
    /\ stream_pc = "start"
    /\ stream_pc' = IF chunk_interval = 0 THEN "raised" ELSE "loop"
    /\ UNCHANGED <<chunk_list, chunk_interval, progress_callback, stream_i, passed>>
    /\ UNCHANGED <<is_stopping, decoderVars, restartVars, readerVars, pushVars,
                   stageVars, cfgVars, tokenVars, summaryVars, parseVars, clockVars,
                   diarVars, llm_accumulated, emitVars, commits_after_stop>>

\* One pass of the loop up to the await of process_func(chunk): the sleep to
\* the chunk's target time, then the call.
StreamPassChunk ==
    /\ stream_pc = "loop"
    /\ stream_i < Len(chunk_list)
    /\ passed' = Append(passed, chunk_list[stream_i + 1])
    /\ stream_pc' = "processing"
    /\ UNCHANGED <<chunk_list, chunk_interval, progress_callback, stream_i>>
    /\ UNCHANGED <<is_stopping, decoderVars, restartVars, readerVars, pushVars,
                   stageVars, cfgVars, tokenVars, summaryVars, parseVars, clockVars,
                   diarVars, llm_accumulated, emitVars, commits_after_stop>>

\* The rest of the pass: process_func(chunk) is over, the progress report is
\* made on every progress_log_interval-th chunk. Nothing in the function
\* catches an exception of either.
StreamProcessed(process_func, report) ==
    /\ stream_pc = "processing"
    /\ IF process_func = "raises"
          \/ (/\ progress_callback
              /\ stream_i % ProgressLogInterval(chunk_interval) = 0
              /\ report = "raises")
       THEN /\ stream_pc' = "raised"
            /\ UNCHANGED stream_i
       ELSE /\ stream_pc' = "loop"
            /\ stream_i' = stream_i + 1
    /\ UNCHANGED <<chunk_list, chunk_interval, progress_callback, passed>>
    /\ UNCHANGED <<is_stopping, decoderVars, restartVars, readerVars, pushVars,
                   stageVars, cfgVars, tokenVars, summaryVars, parseVars, clockVars,
                   diarVars, llm_accumulated, emitVars, commits_after_stop>>

\* After the loop: the end of stream signal, process_func(b"").
StreamPassStop ==
    /\ stream_pc = "loop"
    /\ stream_i >= Len(chunk_list)
    /\ passed' = Append(passed, EmptyMessage)
    /\ stream_pc' = "stopping"
    /\ UNCHANGED <<chunk_list, chunk_interval, progress_callback, stream_i>>
    /\ UNCHANGED <<is_stopping, decoderVars, restartVars, readerVars, pushVars,
                   stageVars, cfgVars, tokenVars, summaryVars, parseVars, clockVars,
                   diarVars, llm_accumulated, emitVars, commits_after_stop>>

\* process_func(b"") is over: the function returns the elapsed time.
StreamStopped(process_func) ==
    /\ stream_pc = "stopping"
    /\ stream_pc' = IF process_func = "raises" THEN "raised" ELSE "returned"
    /\ UNCHANGED <<chunk_list, chunk_interval, progress_callback, stream_i, passed>>
    /\ UNCHANGED <<is_stopping, decoderVars, restartVars, readerVars, pushVars,
                   stageVars, cfgVars, tokenVars, summaryVars, parseVars, clockVars,
                   diarVars, llm_accumulated, emitVars, commits_after_stop>>

\* A call of stream_chunks_realtime() with any list of chunks of a file.
StreamInit ==
    /\ Config(TRUE, FALSE, FALSE, TRUE)
    /\ DecoderInit
    /\ CoordInit
    /\ chunk_list \in ChunkLists
    /\ chunk_interval \in ChunkIntervals
    /\ progress_callback \in BOOLEAN
    /\ stream_i = 0
    /\ stream_pc = "start"
    /\ passed = <<>>

StreamNext ==
    \/ StreamBegin
    \/ StreamPassChunk
    \/ \E process_func \in CallOutcomes, report \in CallOutcomes :
          StreamProcessed(process_func, report)
    \/ StreamPassStop
    \/ \E process_func \in CallOutcomes : StreamStopped(process_func)

StreamSpec == StreamInit /\ [][StreamNext]_vars

\* The calls a complete run makes: every chunk in list order, then b"".
AllCalls == chunk_list \o <<EmptyMessage>>

IsPrefix(s, t) == Len(s) <= Len(t) /\ s = SubSeq(t, 1, Len(s))

StreamEnded == stream_pc \in {"returned", "raised"}

====
